---------------------------- MODULE Spec2Model ----------------------------
(***************************************************************************)
(* A model of the krustlet node agent: the per-pod event queue             *)
(* (kubelet/src/pod/queue.rs), the executor task it spawns (start_task),   *)
(* the pod handle and its status aggregator (kubelet/src/handle.rs), the   *)
(* reactive manifest channel (krator/src/manifest.rs) and the provider     *)
(* states of the pod state machine (wasi-provider, wascc-provider).        *)
(*                                                                         *)
(* The specifications of the module:                                       *)
(*   Spec          the queue with its resync and the mailbox tasks         *)
(*   SpecExec      the queue, the mailbox task and the executor task       *)
(*   SpecE5        one pod that is applied, runs its containers and is     *)
(*                 deleted, with the container runtime and the aggregator  *)
(*   SpecManifest  the manifest channel with its writer and readers        *)
(*   SpecSM        the pod state machine of the provider                   *)
(*   SpecMailbox   the queue and the mailbox tasks, scheduled fairly       *)
(*   SpecAbort     SpecMailbox with mailbox tasks that may end early       *)
(*   SpecBurst     a burst of events about one pod that fills its mailbox  *)
(*   SpecStore     the object store and the tasks that call it             *)
(*   SpecHandle    a PodHandle over two containers and its callers         *)
(*   SpecStatus    the status channel of a container and two subscriptions *)
(*   SpecDrop      SpecE5 with an owner that drops the PodHandle           *)
(*   SpecPatch     the status patches of a pod as calls in flight          *)
(*   SpecInit      the containers of a pod with init containers            *)
(*   SpecWascc     add and delete of the waSCC provider                    *)
(***************************************************************************)
EXTENDS Integers, Sequences, FiniteSets, TLC

(***************************************************************************)
(* Bounds of the model.                                                    *)
(***************************************************************************)
\* Number of calls the watch loop makes to Queue::enqueue / Queue::resync.
MaxCalls == 3
\* Events the watch loop delivers about one pod in SpecBurst: more than a
\* mailbox holds.
MaxBurst == 18
\* Number of mailboxes (and executor tasks) run_pod may create in a run.
MaxInst == 2
\* Number of entries into the Error state in a run of the pod state machine.
MaxErrEntries == 8
\* Number of failed image pulls in a run of the pod state machine.
MaxPullFails == 3
\* Number of values the writer of a manifest sends.
MaxSends == 3
\* Number of polls of one reader of a manifest.
MaxPolls == 3
\* Number of calls the tasks make to the Store.
MaxStoreCalls == 4
\* Number of calls of PodHandle::stop and PodHandle::wait on one PodHandle.
MaxHandleCalls == 2

(***************************************************************************)
(* Program constants.                                                      *)
(***************************************************************************)
\* tokio::sync::mpsc::channel::<Event<KubePod>>(16)
MailboxCapacity == 16

\* if pod_state.errors > 3 (wasi-provider/src/states/error.rs:22)
ErrorThreshold == 3

Pods == {"p1", "p2"}
Readers == {"manifest_1", "manifest_2"}
Inst == 1..MaxInst
NoInst == 0

\* anyhow errors a state machine run may end with: a message followed by the
\* chain of its causes.
Errors == {<<"fatal", "cause">>}
NoError == <<>>

VARIABLES
  \* ---- Queue (queue.rs:23-27) and the watch loop that drives it
  handlers,      \* Queue.handlers: PodKey -> instance holding the Sender, or NoInst
  calls,         \* number of enqueue/resync calls made by the watch loop
  enqLog,        \* history: every event passed to enqueue, with where it went
  rsPc,          \* position of a resync call in progress
  rsList,        \* the pods argument of the resync call
  rsDels,        \* keys of pods_in_state.difference(current_pods) still to delete
  rsApps,        \* pods of the list still to apply
  rsPrior,       \* history: handlers when the resync call started
  \* ---- per mailbox created by run_pod (queue.rs:38-89)
  nInst,         \* number of mailboxes created so far
  mbKey,         \* PodKey the mailbox was created for
  mbQueue,       \* contents of the mpsc channel (indices into enqLog)
  mbOpen,        \* the Receiver is alive (the mailbox task has not ended)
  mbRecv,        \* history: events the mailbox task received, in order
  podDeleted,    \* the Arc<RwLock<bool>> pod_deleted
  \* ---- per executor task start_task (queue.rs:170-245)
  pc,            \* position of the executor task
  smState,       \* state of the pod state machine run from InitialState
  runOutcome,    \* how the run from InitialState ended
  runErr,        \* the error of Complete(Err(e))
  termRuns,      \* number of runs started from TerminatedState
  termOutcome,   \* result of the run from TerminatedState
  failedPatch,   \* reason of the phase=Failed patch the executor issued
  dropCount,     \* number of pod_state.async_drop() executions
  firedInRun,    \* history: sentinel became true while the initial run was in progress
  trace,         \* history: stop / drop / delete milestones, in order
  apiDeleted,    \* the executor called pod_client.delete
  latePatch,     \* history: a status patch was issued after apiDeleted
  \* ---- PodHandle, container runtime and aggregator (handle.rs, wasi_runtime.rs)
  handleState,   \* PodHandle of the instance: none / live / stopped / dropped
  ctrStatus,     \* value held by the container's status watch channel
  ctrVer,        \* number of broadcasts on the status channel
  ctrOpen,       \* the status Sender is alive
  aggPc,         \* aggregator task: none / running / exited
  aggVer         \* version of the status channel the aggregator has seen

queueVars == <<handlers, calls, enqLog, rsPc, rsList, rsDels, rsApps, rsPrior>>
mbVars    == <<nInst, mbKey, mbQueue, mbOpen, mbRecv, podDeleted>>
execVars  == <<pc, smState, runOutcome, runErr, termRuns, termOutcome, failedPatch,
               dropCount, firedInRun, trace, apiDeleted, latePatch>>
handleVars == <<handleState, ctrStatus, ctrVer, ctrOpen, aggPc, aggVer>>

VARIABLES
  \* ---- pod state machine of the provider (wasi-provider/src/states)
  psState,       \* the current state of the pod state machine
  psErrors,      \* PodState.errors
  pullFails,     \* number of failed fetch_pod_modules calls
  errEntries,    \* history: number of entries into the Error state
  errRow,        \* history: entries into Error with no ImagePull in between
  errTotal,      \* history: entries into Error since the last CrashLoopBackoff
  errOut,        \* history: what each Error::next did
  pullBackoff,   \* PodState.image_pull_backoff_strategy: waits since the last reset
  crashBackoff,  \* PodState.crash_loop_backoff_strategy: waits since the last reset
  pullRun,       \* history: failed fetches since the last successful one
  pullWaits,     \* history: durations of the image-pull waits since the last reset()
  crashWaits,    \* history: durations of the crash-loop waits (the policy is never reset)
  termSm,        \* the run from TerminatedState that follows a deletion during the run
  ctrSm,         \* state of the container state machine (states/container)
  phaseSeen,     \* history: the phases of the status patches of the states so far
  \* ---- Manifest (krator/src/manifest.rs): a watch channel and its readers
  sentLog,       \* the initial value followed by every value sent, in order
  wOpen,         \* the Sender is alive
  rdLive,        \* the reader (a Manifest) exists
  rdSeen,        \* version the reader's stream has marked as seen
  rdFirst,       \* the reader's stream has not been polled yet
  rdOut,         \* history: result of every poll of the reader
  rdSkipped,     \* history: values overwritten with no poll of the reader in between
  rdPolledSince, \* history: the reader was polled since the last send
  rdCoalesced,   \* history: two sends happened with no poll of the reader in between
  rdBorn,        \* history: the value the channel held when the reader was created
  rdLatest       \* history: the last call of latest(): the reader and the result

boVars  == <<pullBackoff, crashBackoff, pullRun, pullWaits, crashWaits>>
runVars == <<termSm, ctrSm>>
smVars  == <<psState, psErrors, pullFails, errEntries, errRow, errTotal, errOut, boVars,
             runVars, phaseSeen>>
manVars == <<sentLog, wOpen, rdLive, rdSeen, rdFirst, rdOut, rdSkipped,
             rdPolledSince, rdCoalesced, rdBorn, rdLatest>>
VARIABLES
  \* ---- Store (krator/src/store.rs) and the tasks that call it
  objects,       \* Store.objects: the outer keys present and the inner maps
  stPc,          \* position of each calling task: idle / holding (the guard)
  stOp,          \* the call the task is making
  stCalls,       \* number of calls made
  stIds,         \* number of objects inserted so far (the next object is stIds + 1)
  stLatest,      \* history: per key, the last write in lock order
  stWritten,     \* history: per key, every object written to it
  stSeen,        \* history: per key, the last object a get returned
  stLastRun      \* history: the last call that ran, with what it found and returned

storeVars == <<objects, stPc, stOp, stCalls, stIds, stLatest, stWritten, stSeen,
               stLastRun>>

VARIABLES
  \* ---- a PodHandle over several containers (handle.rs:107-210)
  hStopper,      \* the Stop implementation of the pod's container handles
  hRun,          \* per container: the workload runs (and holds its status Sender)
  hAggDone,      \* the status aggregator task has finished
  hCall,         \* the call of PodHandle::stop or PodHandle::wait in progress
  hCalls,        \* number of calls made
  hStops,        \* history: per container, stop invocations of the present call
  hStopErrs,     \* history: containers whose stop returned Err in the present call
  hWaits         \* history: per container, the return of its wait in the present call

podHandleVars == <<hStopper, hRun, hAggDone, hCall, hCalls, hStops, hStopErrs, hWaits>>

VARIABLES
  \* ---- subscriptions returned by RuntimeHandle::status (handle.rs:92-94)
  subLive,       \* the subscription exists
  subSeen,       \* version of the status channel the subscription has seen
  subEnd,        \* the subscription's stream has yielded None
  subOut         \* history: the statuses the subscription yielded, in order

subVars == <<subLive, subSeen, subEnd, subOut>>

VARIABLES
  \* ---- the containers of a pod with init containers (scenarios E2, E3)
  icStatus,      \* per init container: NotStarted / Running / Terminated (ok or failed)
  mainStatus,    \* per main container: NotStarted / Running / Terminated (ok or failed)
  podPhase,      \* the phase of the pod status
  podMessage     \* the message of the pod status

initVars == <<icStatus, mainStatus, podPhase, podMessage>>

VARIABLES
  \* ---- WasccProvider: add and delete (wascc-provider lib.rs)
  wHandles,      \* the handles map: per pod its PodHandle, if any
  wPc,           \* idle, or adding: an add call is inside its container loop
  wPod,          \* the pod of the add call in progress
  wTodo,         \* the containers the loop of add has still to start
  wStarted,      \* per pod: the containers whose actor was started in the host
  wFailed,       \* per pod: the container whose start returned Err, or none
  wPatched,      \* per pod: the containers patched Terminated{failed: true} by add
  wResult,       \* per pod: what add returned (none: not called or not returned)
  wDelete        \* per pod: what delete found (none: not called)

wasccVars == <<wHandles, wPc, wPod, wTodo, wStarted, wFailed, wPatched, wResult, wDelete>>
libVars == <<storeVars, podHandleVars, subVars, initVars, wasccVars>>

coreVars == <<queueVars, mbVars, execVars, handleVars>>
auxVars  == <<smVars, manVars, libVars>>

vars == <<coreVars, auxVars>>

(***************************************************************************)
(* Helpers.                                                                *)
(***************************************************************************)
Range(s) == {s[i] : i \in DOMAIN s}

\* Position of x in the sequence s, 0 when absent.
IndexOf(s, x) == IF \E i \in DOMAIN s : s[i] = x
                 THEN CHOOSE i \in DOMAIN s : s[i] = x
                 ELSE 0

\* format!("{:?}", e) of an anyhow error: the message and the chain of causes.
DebugFmt(e) == e
\* e.to_string(): the outermost message only.
DisplayFmt(e) == <<e[1]>>

(***************************************************************************)
(* The mpsc channel of a mailbox.                                          *)
(***************************************************************************)
\* Variant of the operator below: the value is put at the front of the channel.
ChanPushFront(q, id) == <<id>> \o q
\* Sender::send on an open channel appends at the back.
ChanPush(q, id) == Append(q, id)

\* Receiver::recv takes the front.
ChanFront(q) == Head(q)
ChanRest(q) == Tail(q)

(***************************************************************************)
(* Init                                                                    *)
(***************************************************************************)
InitQueue ==
  /\ handlers = [k \in Pods |-> NoInst]
  /\ calls = 0
  /\ enqLog = <<>>
  /\ rsPc = "idle"
  /\ rsList = <<>>
  /\ rsDels = {}
  /\ rsApps = <<>>
  /\ rsPrior = [k \in Pods |-> NoInst]

InitMailboxes ==
  /\ nInst = 0
  /\ mbKey = [m \in Inst |-> "none"]
  /\ mbQueue = [m \in Inst |-> <<>>]
  /\ mbOpen = [m \in Inst |-> FALSE]
  /\ mbRecv = [m \in Inst |-> <<>>]
  /\ podDeleted = [m \in Inst |-> FALSE]

InitExec ==
  /\ pc = [m \in Inst |-> "none"]
  /\ smState = [m \in Inst |-> "none"]
  /\ runOutcome = [m \in Inst |-> "none"]
  /\ runErr = [m \in Inst |-> NoError]
  /\ termRuns = [m \in Inst |-> 0]
  /\ termOutcome = [m \in Inst |-> "none"]
  /\ failedPatch = [m \in Inst |-> NoError]
  /\ dropCount = [m \in Inst |-> 0]
  /\ firedInRun = [m \in Inst |-> FALSE]
  /\ trace = [m \in Inst |-> <<>>]
  /\ apiDeleted = [m \in Inst |-> FALSE]
  /\ latePatch = [m \in Inst |-> FALSE]

InitHandles ==
  /\ handleState = [m \in Inst |-> "none"]
  /\ ctrStatus = [m \in Inst |-> "none"]
  /\ ctrVer = [m \in Inst |-> 0]
  /\ ctrOpen = [m \in Inst |-> FALSE]
  /\ aggPc = [m \in Inst |-> "none"]
  /\ aggVer = [m \in Inst |-> 0]

\* The state machine starts in the provider's InitialState, Registered, with
\* a default PodState.
InitSM ==
  /\ psState = "Registered"
  /\ psErrors = 0
  /\ pullFails = 0
  /\ errEntries = 0
  /\ errRow = 0
  /\ errTotal = 0
  /\ errOut = <<>>
  /\ pullBackoff = 0
  /\ crashBackoff = 0
  /\ pullRun = 0
  /\ pullWaits = <<>>
  /\ crashWaits = <<>>
  /\ termSm = "none"
  /\ ctrSm = "Waiting"
  /\ phaseSeen = {}

\* Manifest::new(0) (manifest.rs:24-28, 60)
InitManifest ==
  /\ sentLog = <<0>>
  /\ wOpen = TRUE
  /\ rdLive = [r \in Readers |-> r = "manifest_1"]
  /\ rdSeen = [r \in Readers |-> 0]
  /\ rdFirst = [r \in Readers |-> TRUE]
  /\ rdOut = [r \in Readers |-> <<>>]
  /\ rdSkipped = [r \in Readers |-> {}]
  /\ rdPolledSince = [r \in Readers |-> FALSE]
  /\ rdCoalesced = [r \in Readers |-> FALSE]
  /\ rdBorn = [r \in Readers |-> 0]
  /\ rdLatest = <<>>

\* The types stored (each with the GroupVersionKind of the same name), the
\* object keys and the tasks that share the store.
Types == {"Pod", "Node"}
ObjKeys == {"a", "b"}
StClients == {"c1", "c2"}

Absent == <<"Absent">>
\* A boxed object: its concrete type and which insertion put it there.
Obj(ty, id) == <<"Obj", ty, id>>
NoOp == [kind |-> "none", t |-> "Pod", k |-> "a", ty |-> "Pod"]

\* Store::new() (store.rs:24-28)
InitStore ==
  /\ objects = [outer |-> {}, inner |-> [t \in Types |-> [k \in ObjKeys |-> Absent]]]
  /\ stPc = [c \in StClients |-> "idle"]
  /\ stOp = [c \in StClients |-> NoOp]
  /\ stCalls = 0
  /\ stIds = 0
  /\ stLatest = [t \in Types |-> [k \in ObjKeys |-> Absent]]
  /\ stWritten = [t \in Types |-> [k \in ObjKeys |-> {}]]
  /\ stSeen = [t \in Types |-> [k \in ObjKeys |-> 0]]
  /\ stLastRun = <<>>

\* The containers of the pod, and the Stop implementations: the two of the
\* repository and one that does what the trait asks and may fail.
Ctrs == {"ctr1", "ctr2"}
Stoppers == {"HandleStopper", "ActorStopper", "OtherStopper"}
NoCall == [op |-> "none", todo |-> {}, ret |-> "none"]
NotWaited == <<>>

\* No PodHandle yet.
InitPodHandle ==
  /\ hStopper = "none"
  /\ hRun = [c \in Ctrs |-> FALSE]
  /\ hAggDone = FALSE
  /\ hCall = NoCall
  /\ hCalls = 0
  /\ hStops = [c \in Ctrs |-> 0]
  /\ hStopErrs = {}
  /\ hWaits = [c \in Ctrs |-> NotWaited]

Subs == {"s1", "s2"}

\* No subscription yet.
InitSubs ==
  /\ subLive = [s \in Subs |-> FALSE]
  /\ subSeen = [s \in Subs |-> 0]
  /\ subEnd = [s \in Subs |-> FALSE]
  /\ subOut = [s \in Subs |-> <<>>]

\* The init containers of the pod in declaration order, and its main
\* containers.
InitCtrs == <<"init-1", "init-2", "init-3">>
MainCtrs == {"main-1", "main-2", "main-3", "main-4"}

\* No container of the pod has been started.
InitContainers ==
  /\ icStatus = [i \in DOMAIN InitCtrs |-> "NotStarted"]
  /\ mainStatus = [c \in MainCtrs |-> "NotStarted"]
  /\ podPhase = "Pending"
  /\ podMessage = <<>>

\* The pods handed to the waSCC provider and the containers of each, in the
\* order of pod.containers().
WPods == {"w1", "w2"}
WCtrs == <<"c1", "c2">>
\* An entry of the map is the one-element sequence of its PodHandle (the
\* containers it holds); no entry is the empty sequence.
NoHandle == <<>>

\* WasccProvider::new (wascc lib.rs:112-165): an empty handles map.
InitWascc ==
  /\ wHandles = [p \in WPods |-> NoHandle]
  /\ wPc = "idle"
  /\ wPod = "none"
  /\ wTodo = <<>>
  /\ wStarted = [p \in WPods |-> {}]
  /\ wFailed = [p \in WPods |-> "none"]
  /\ wPatched = [p \in WPods |-> {}]
  /\ wResult = [p \in WPods |-> "none"]
  /\ wDelete = [p \in WPods |-> "none"]

Init ==
  /\ InitQueue /\ InitMailboxes /\ InitExec /\ InitHandles /\ InitSM /\ InitManifest
  /\ InitStore /\ InitPodHandle /\ InitSubs /\ InitContainers /\ InitWascc


(***************************************************************************)
(* Queue::enqueue (queue.rs:91-140).  The queue is owned by the watch      *)
(* loop, which calls enqueue and resync one after the other; no other task *)
(* reads or writes Queue.handlers.  A call is one step: it suspends only   *)
(* in sender.send, which the guard CanSend models.                         *)
(***************************************************************************)
\* Variant of the operator below: a send never waits for room.
CanSendAlways(m) == TRUE
\* sender.send(event).await does not suspend: the receiver is gone (the send
\* fails at once) or the channel has room.
CanSend(m) == ~mbOpen[m] \/ Len(mbQueue[m]) < MailboxCapacity

LogEntry(type, k, dts, to, res) ==
  [type |-> type, key |-> k, dts |-> dts, to |-> to, res |-> res]

\* Result of enqueue(Applied(pod)): the only early return is the `?` on
\* run_pod, taken when initialize_pod_state fails (queue.rs:49, 109).
AppliedResult(k, initOk) ==
  IF handlers[k] = NoInst /\ ~initOk THEN "Err" ELSE "Ok"

\* Result of enqueue(Deleted(pod)): `sender.send(event).await?` (queue.rs:130).
DeletedResult(k) ==
  IF handlers[k] # NoInst /\ ~mbOpen[handlers[k]] THEN "Err" ELSE "Ok"

\* run_pod (queue.rs:38-89): a channel, the pod_deleted flag, the executor
\* task and the mailbox task of instance m.
RunPod(m, k) ==
  /\ nInst' = m
  /\ mbKey' = [mbKey EXCEPT ![m] = k]
  /\ mbOpen' = [mbOpen EXCEPT ![m] = TRUE]
  /\ podDeleted' = [podDeleted EXCEPT ![m] = FALSE]
  /\ pc' = [pc EXCEPT ![m] = "running"]
  /\ smState' = [smState EXCEPT ![m] = "Registered"]
  /\ runOutcome' = [runOutcome EXCEPT ![m] = "pending"]

\* Variant of the operator below: run_pod is called once more.
RunPodAgain == RunPod(nInst + 1, "p1")
\* enqueue does not call run_pod: nothing is created or spawned.
NoRunPod == UNCHANGED <<nInst, mbKey, mbOpen, podDeleted, pc, smState, runOutcome>>

\* The Applied arm (queue.rs:93-126).
EnqueueApplied(k, dts, initOk) ==
  LET id == Len(enqLog) + 1
      old == handlers[k]
  IN  IF old # NoInst
      THEN \* Some(s): forward to the existing handler; a failed send is logged
           /\ CanSend(old)
           /\ enqLog' = Append(enqLog, LogEntry("Applied", k, dts,
                                 IF mbOpen[old] THEN old ELSE NoInst, "Ok"))
           /\ mbQueue' = IF mbOpen[old]
                         THEN [mbQueue EXCEPT ![old] = ChanPush(@, id)]
                         ELSE mbQueue
           /\ UNCHANGED handlers
           /\ NoRunPod
      ELSE IF ~initOk
      THEN \* None, and run_pod returns Err: nothing is inserted or sent
           /\ enqLog' = Append(enqLog, LogEntry("Applied", k, dts, NoInst, "Err"))
           /\ UNCHANGED <<handlers, mbQueue>>
           /\ NoRunPod
      ELSE \* None: run_pod, insert the sender, then send the event
           /\ nInst < MaxInst
           /\ RunPod(nInst + 1, k)
           /\ handlers' = [handlers EXCEPT ![k] = nInst + 1]
           /\ mbQueue' = [mbQueue EXCEPT ![nInst + 1] = ChanPush(@, id)]
           /\ enqLog' = Append(enqLog, LogEntry("Applied", k, dts, nInst + 1, "Ok"))

\* The Deleted arm (queue.rs:127-133).
EnqueueDeleted(k) ==
  LET id == Len(enqLog) + 1
      old == handlers[k]
  IN  IF old # NoInst
      THEN /\ CanSend(old)
           /\ handlers' = [handlers EXCEPT ![k] = NoInst]
           /\ enqLog' = Append(enqLog, LogEntry("Deleted", k, FALSE,
                                 IF mbOpen[old] THEN old ELSE NoInst, DeletedResult(k)))
           /\ mbQueue' = IF mbOpen[old]
                         THEN [mbQueue EXCEPT ![old] = ChanPush(@, id)]
                         ELSE mbQueue
           /\ NoRunPod
      ELSE /\ enqLog' = Append(enqLog, LogEntry("Deleted", k, FALSE, NoInst, "Ok"))
           /\ UNCHANGED <<handlers, mbQueue>>
           /\ NoRunPod

\* The Restarted arm (queue.rs:135-138): a warning, nothing else.
EnqueueRestarted ==
  /\ enqLog' = Append(enqLog, LogEntry("Restarted", "none", FALSE, NoInst, "Ok"))
  /\ UNCHANGED <<handlers, mbQueue>>
  /\ NoRunPod

execRest == <<runErr, termRuns, termOutcome, failedPatch, dropCount, firedInRun,
              trace, apiDeleted, latePatch>>

WatchIdle == rsPc \in {"idle", "ok", "err"}

\* The watch loop calls enqueue with one event about a pod of P.
Enqueue(P) ==
  /\ WatchIdle
  /\ UNCHANGED auxVars
  /\ calls < MaxCalls
  /\ calls' = calls + 1
  /\ rsPc' = "idle"
  /\ \E k \in P, kind \in {"Applied", "AppliedDts", "AppliedInitErr", "Deleted"} :
       CASE kind = "Applied"        -> EnqueueApplied(k, FALSE, TRUE)
         [] kind = "AppliedDts"     -> EnqueueApplied(k, TRUE, TRUE)
         [] kind = "AppliedInitErr" -> EnqueueApplied(k, FALSE, FALSE)
         [] kind = "Deleted"        -> EnqueueDeleted(k)
  /\ UNCHANGED <<rsList, rsDels, rsApps, rsPrior, mbRecv, execRest, handleVars>>

\* The watch loop passes a Restarted event to enqueue instead of resync.
EnqueueRestartedCall ==
  /\ WatchIdle
  /\ UNCHANGED auxVars
  /\ calls < MaxCalls
  /\ calls' = calls + 1
  /\ rsPc' = "idle"
  /\ EnqueueRestarted
  /\ UNCHANGED <<rsList, rsDels, rsApps, rsPrior, mbRecv, execRest, handleVars>>

EnqueueAny == Enqueue(Pods)

(***************************************************************************)
(* Queue::resync (queue.rs:145-167).  The enqueue calls it makes are the   *)
(* steps of the call; the mailbox and executor tasks run in between.       *)
(***************************************************************************)
Keys(h) == {k \in Pods : h[k] # NoInst}

\* Variant of the operator below: resync deletes nothing.
ResyncDeletesNone(inState, current) == {}
\* pods_in_state.difference(&current_pods) (queue.rs:148-150)
ResyncDeletes(inState, current) == inState \ current

\* Variant of the operator below: resync goes on after a failed enqueue.
ResyncGoesOn(res) == "run"
\* `.await?` on each enqueue of resync (queue.rs:159, 164): an Err is
\* returned at once, an Ok lets the loop go on.
ResyncAfter(res) == IF res = "Err" THEN "err" ELSE "run"

\* The lists a watch Restarted event may carry.
PodLists == {<<>>, <<"p1">>, <<"p2">>, <<"p1", "p2">>}

ResyncStart ==
  /\ WatchIdle
  /\ UNCHANGED auxVars
  /\ calls < MaxCalls
  /\ calls' = calls + 1
  /\ \E list \in PodLists :
       /\ rsList' = list
       /\ rsApps' = list
       /\ rsDels' = ResyncDeletes(Keys(handlers), Range(list))
  /\ rsPrior' = handlers
  /\ rsPc' = "run"
  /\ UNCHANGED <<handlers, enqLog, mbVars, execVars, handleVars>>

\* One iteration of the first loop (queue.rs:150-160); a HashSet iterates in
\* any order.
ResyncDelete ==
  /\ rsPc = "run"
  /\ UNCHANGED auxVars
  /\ \E k \in rsDels :
       /\ EnqueueDeleted(k)
       /\ rsDels' = rsDels \ {k}
       /\ rsPc' = ResyncAfter(DeletedResult(k))
  /\ UNCHANGED <<calls, rsList, rsApps, rsPrior, mbRecv, execRest, handleVars>>

\* One iteration of the second loop (queue.rs:163-165).
ResyncApply ==
  /\ rsPc = "run"
  /\ UNCHANGED auxVars
  /\ rsDels = {}
  /\ rsApps # <<>>
  /\ \E dts \in BOOLEAN, initOk \in BOOLEAN :
       /\ EnqueueApplied(Head(rsApps), dts, initOk)
       /\ rsPc' = ResyncAfter(AppliedResult(Head(rsApps), initOk))
  /\ rsApps' = Tail(rsApps)
  /\ UNCHANGED <<calls, rsList, rsDels, rsPrior, mbRecv, execRest, handleVars>>

\* Ok(()) (queue.rs:166)
ResyncReturn ==
  /\ rsPc = "run"
  /\ UNCHANGED auxVars
  /\ rsDels = {}
  /\ rsApps = <<>>
  /\ rsPc' = "ok"
  /\ UNCHANGED <<handlers, calls, enqLog, rsList, rsDels, rsApps, rsPrior,
                 mbVars, execVars, handleVars>>

(***************************************************************************)
(* The mailbox task spawned by run_pod (queue.rs:60-87).                   *)
(***************************************************************************)
\* Variant of the operator below: the loop goes on after a Deleted event.
TaskNeverBreaks(type) == FALSE
\* break in the Deleted arm (queue.rs:82): the loop and the task end.
TaskBreaks(type) == type = "Deleted"

\* Variant of the operator below: every event sets the sentinel.
SentinelFiresAlways(ev) == TRUE
\* The events for which the mailbox task stores true in pod_deleted
\* (queue.rs:59-82): Applied carrying a deletion timestamp, and Deleted.
SentinelFires(ev) == ev.type = "Deleted" \/ (ev.type = "Applied" /\ ev.dts)

MailboxRecv(m) ==
  /\ mbOpen[m]
  /\ UNCHANGED auxVars
  /\ mbQueue[m] # <<>>
  /\ LET id == ChanFront(mbQueue[m])
         ev == enqLog[id]
         fires == SentinelFires(ev)
     IN  /\ mbQueue' = [mbQueue EXCEPT ![m] = ChanRest(@)]
         /\ mbRecv' = [mbRecv EXCEPT ![m] = Append(@, id)]
         /\ podDeleted' = IF fires THEN [podDeleted EXCEPT ![m] = TRUE] ELSE podDeleted
         \* Deleted: break, the task ends and drops the receiver
         /\ mbOpen' = IF TaskBreaks(ev.type) THEN [mbOpen EXCEPT ![m] = FALSE] ELSE mbOpen
         /\ firedInRun' = IF fires /\ pc[m] = "running"
                          THEN [firedInRun EXCEPT ![m] = TRUE]
                          ELSE firedInRun
  /\ UNCHANGED <<queueVars, nInst, mbKey, pc, smState, runOutcome, runErr, termRuns,
                 termOutcome, failedPatch, dropCount, trace, apiDeleted, latePatch,
                 handleVars>>

(***************************************************************************)
(* PodHandle and the container it manages.                                 *)
(***************************************************************************)
\* WasiRuntime::start (wasi_runtime.rs:99-121): the status channel is created
\* holding Waiting and the runtime task is spawned with its Sender.
RuntimeStart(m) ==
  /\ ctrStatus' = [ctrStatus EXCEPT ![m] = "Waiting"]
  /\ ctrVer' = [ctrVer EXCEPT ![m] = 1]
  /\ ctrOpen' = [ctrOpen EXCEPT ![m] = TRUE]

\* PodHandle::new (handle.rs:122-160): the aggregator task is spawned over a
\* clone of every container's status receiver, which has seen nothing yet.
PodHandleNew(m) ==
  /\ handleState' = [handleState EXCEPT ![m] = "live"]
  /\ aggPc' = [aggPc EXCEPT ![m] = "running"]
  /\ aggVer' = [aggVer EXCEPT ![m] = 0]

\* Variant of the operator below: stop leaves the handle as it is.
PodHandleStopNoop(h) == h
\* PodHandle::stop (handle.rs:183-198): stop on every container handle; the
\* errors are logged and the result is Ok(()).
PodHandleStop(h) == IF h \in {"none", "dropped"} THEN h ELSE "stopped"

\* Terminated::next (terminated.rs:10-19): the handle of the pod, when the
\* provider holds one, is stopped; PodHandle::stop never returns Err.
TerminatedNext(m) ==
  /\ handleState' = [handleState EXCEPT ![m] = PodHandleStop(@)]
  /\ trace' = [trace EXCEPT ![m] =
                 IF PodHandleStop(handleState[m]) = "stopped"
                 THEN @ \o <<"terminated", "stop">>
                 ELSE Append(@, "terminated")]

(***************************************************************************)
(* The executor task start_task (queue.rs:170-245).                        *)
(*                                                                         *)
(* run_to_completion is not part of the sources at hand; its run from the  *)
(* initial state is modelled after section 4.5 of the specification as a   *)
(* walk Registered -> Running -> Complete(Ok), which any state may leave   *)
(* with Complete(Err(e)).  Registered stands for the states that precede   *)
(* Running; the step into Running starts the containers and builds the     *)
(* PodHandle.  The 1 s period of the check loops is not modelled: a loop   *)
(* may observe the flag at any time after it became true.                  *)
(***************************************************************************)
\* The states before Running: containers are started and the PodHandle built.
RunAdvance(m) ==
  /\ pc[m] = "running"
  /\ UNCHANGED auxVars
  /\ smState[m] = "Registered"
  /\ smState' = [smState EXCEPT ![m] = "Running"]
  /\ RuntimeStart(m)
  /\ PodHandleNew(m)
  /\ UNCHANGED <<queueVars, mbVars, pc, runOutcome, execRest>>

\* select!, first arm, Ok(()) (queue.rs:189-190): debug!, nothing else.
RunArmOk(m) ==
  /\ runOutcome' = [runOutcome EXCEPT ![m] = "ok"]
  /\ pc' = [pc EXCEPT ![m] = "waitDereg"]
  /\ UNCHANGED <<runErr, failedPatch, termRuns>>

\* Variant of the operator below: the Err arm goes on to a run from TerminatedState.
RunArmErrThenTerminated(m, e, apiOk) ==
  /\ runOutcome' = [runOutcome EXCEPT ![m] = "err"]
  /\ runErr' = [runErr EXCEPT ![m] = e]
  /\ failedPatch' = [failedPatch EXCEPT ![m] = DebugFmt(e)]
  /\ termRuns' = [termRuns EXCEPT ![m] = @ + 1]
  /\ pc' = [pc EXCEPT ![m] = IF apiOk THEN "terminating" ELSE "panicked"]
\* select!, first arm, Err(e) (queue.rs:191-209): the status is patched to
\* phase Failed with reason format!("{:?}", e); the patch is unwrapped, so a
\* failed API call panics the task.
RunArmErr(m, e, apiOk) ==
  /\ runOutcome' = [runOutcome EXCEPT ![m] = "err"]
  /\ runErr' = [runErr EXCEPT ![m] = e]
  /\ failedPatch' = [failedPatch EXCEPT ![m] = DebugFmt(e)]
  /\ termRuns' = termRuns
  /\ pc' = [pc EXCEPT ![m] = IF apiOk THEN "waitDereg" ELSE "panicked"]

\* The run from the initial state ends with Complete(Ok(())).
RunCompleteOk(m) ==
  /\ pc[m] = "running"
  /\ UNCHANGED auxVars
  /\ smState[m] = "Running"
  /\ smState' = [smState EXCEPT ![m] = "exited"]
  /\ RunArmOk(m)
  /\ UNCHANGED <<queueVars, mbVars, termOutcome, dropCount, firedInRun, trace,
                 apiDeleted, latePatch, handleVars>>

\* The run from the initial state ends with Complete(Err(e)) (fail_fatal,
\* states.rs:23-28).
RunCompleteErr(m) ==
  /\ pc[m] = "running"
  /\ UNCHANGED auxVars
  /\ smState' = [smState EXCEPT ![m] = "exited"]
  /\ \E e \in Errors, apiOk \in BOOLEAN : RunArmErr(m, e, apiOk)
  /\ UNCHANGED <<queueVars, mbVars, termOutcome, dropCount, firedInRun, trace,
                 apiDeleted, latePatch, handleVars>>

\* Variant of the operator below: the check arm changes nothing.
CheckArmIgnored(m) ==
  /\ pc' = pc
  /\ runOutcome' = runOutcome
  /\ termRuns' = termRuns
\* select!, second arm (queue.rs:179-186, 211-214): the check loop read the
\* flag as true; the future of the first run is dropped and a run from
\* P::TerminatedState starts.
CheckArm(m) ==
  /\ pc' = [pc EXCEPT ![m] = "terminating"]
  /\ runOutcome' = [runOutcome EXCEPT ![m] = "abandoned"]
  /\ termRuns' = [termRuns EXCEPT ![m] = @ + 1]

CheckFires(m) ==
  /\ pc[m] = "running"
  /\ UNCHANGED auxVars
  /\ podDeleted[m]
  /\ CheckArm(m)
  /\ UNCHANGED <<queueVars, mbVars, smState, runErr, termOutcome, failedPatch,
                 dropCount, firedInRun, trace, apiDeleted, latePatch, handleVars>>

\* Variant of the operator below: a failed Terminated run is run again.
TerminatedRetried(res) == IF res = "err" THEN "terminating" ELSE "waitDereg"
\* The run from TerminatedState completes (queue.rs:214-217): either result
\* is logged and the task goes on to wait for deregistration.
TerminatedLogged(res) == "waitDereg"

TerminatedRun(m) ==
  /\ pc[m] = "terminating"
  /\ UNCHANGED auxVars
  /\ TerminatedNext(m)
  /\ \E res \in {"ok", "err"} :
       /\ termOutcome' = [termOutcome EXCEPT ![m] = res]
       /\ pc' = [pc EXCEPT ![m] = TerminatedLogged(res)]
  /\ UNCHANGED <<queueVars, mbVars, smState, runOutcome, runErr, termRuns,
                 failedPatch, dropCount, firedInRun, apiDeleted, latePatch,
                 ctrStatus, ctrVer, ctrOpen, aggPc, aggVer>>

\* Variant of the operator below: the deregistration loop does not wait for the flag.
DeregSkipsWait(m) == TRUE
\* The deregistration loop (queue.rs:221-228) leaves once the flag is true.
DeregReady(m) == podDeleted[m]

DeregObserved(m) ==
  /\ pc[m] = "waitDereg"
  /\ UNCHANGED auxVars
  /\ DeregReady(m)
  /\ pc' = [pc EXCEPT ![m] = "drop"]
  /\ UNCHANGED <<queueVars, mbVars, smState, runOutcome, execRest, handleVars>>

\* Variant of the operator below: async_drop is not executed.
AsyncDropSkipped(n) == n
\* pod_state.async_drop().await (queue.rs:229)
AsyncDropRun(n) == n + 1

AsyncDrop(m) ==
  /\ pc[m] = "drop"
  /\ UNCHANGED auxVars
  /\ dropCount' = [dropCount EXCEPT ![m] = AsyncDropRun(@)]
  /\ trace' = [trace EXCEPT ![m] = Append(@, "drop")]
  /\ pc' = [pc EXCEPT ![m] = "apiDelete"]
  /\ UNCHANGED <<queueVars, mbVars, smState, runOutcome, runErr, termRuns,
                 termOutcome, failedPatch, firedInRun, apiDeleted, latePatch,
                 handleVars>>

\* pod_client.delete (queue.rs:231-244): a failure is only a warning, so the
\* task does the same on either result.
ApiDelete(m) ==
  /\ pc[m] = "apiDelete"
  /\ UNCHANGED auxVars
  /\ apiDeleted' = [apiDeleted EXCEPT ![m] = TRUE]
  /\ trace' = [trace EXCEPT ![m] = Append(@, "delete")]
  /\ pc' = [pc EXCEPT ![m] = "done"]
  /\ UNCHANGED <<queueVars, mbVars, smState, runOutcome, runErr, termRuns,
                 termOutcome, failedPatch, dropCount, firedInRun, latePatch,
                 handleVars>>

(***************************************************************************)
(* Spec: the queue and the mailbox tasks, over two pods.  The executor     *)
(* tasks are spawned and never scheduled; no step of the queue or of a     *)
(* mailbox task reads what they write.                                     *)
(***************************************************************************)
Next ==
  \/ EnqueueAny
  \/ EnqueueRestartedCall
  \/ ResyncStart
  \/ ResyncDelete
  \/ ResyncApply
  \/ ResyncReturn
  \/ \E m \in Inst : MailboxRecv(m)

Spec == Init /\ [][Next]_vars

(***************************************************************************)
(* SpecExec: the queue, the mailbox tasks and the executor tasks of the    *)
(* pods of one key.                                                        *)
(***************************************************************************)
\* SpecMailbox: the enqueue calls of the watch loop and the mailbox tasks,
\* which the runtime schedules fairly.
NextMailbox ==
  \/ EnqueueAny
  \/ \E m \in Inst : MailboxRecv(m)

SpecMailbox ==
  Init /\ [][NextMailbox]_vars /\ \A m \in Inst : WF_vars(MailboxRecv(m))

\* The mailbox task ends without having received Deleted (it panics, or the
\* runtime drops it at shutdown): the Receiver is dropped while the Sender
\* is still in the mailbox map.
MailboxAborted(m) ==
  /\ mbOpen[m]
  /\ UNCHANGED auxVars
  /\ mbOpen' = [mbOpen EXCEPT ![m] = FALSE]
  /\ UNCHANGED <<queueVars, nInst, mbKey, mbQueue, mbRecv, podDeleted, execVars,
                 handleVars>>

\* SpecAbort: SpecMailbox with mailbox tasks that may end early.
NextAbort ==
  \/ EnqueueAny
  \/ \E m \in Inst : MailboxRecv(m)
  \/ \E m \in Inst : MailboxAborted(m)

SpecAbort == Init /\ [][NextAbort]_vars

\* SpecBurst: the watch loop delivers Applied events about pod p1 faster
\* than the mailbox task takes them.  A call that finds the mailbox full is
\* suspended in sender.send (rsPc = "sending") and resumes when there is room.
EnqueueBurst ==
  /\ WatchIdle
  /\ UNCHANGED auxVars
  /\ calls < MaxBurst
  /\ calls' = calls + 1
  /\ IF handlers["p1"] # NoInst /\ ~CanSend(handlers["p1"])
     THEN /\ rsPc' = "sending"
          /\ UNCHANGED <<enqLog, handlers, mbQueue>>
          /\ NoRunPod
     ELSE /\ rsPc' = "idle"
          /\ EnqueueApplied("p1", FALSE, TRUE)
  /\ UNCHANGED <<rsList, rsDels, rsApps, rsPrior, mbRecv, execRest, handleVars>>

EnqueueResume ==
  /\ rsPc = "sending"
  /\ UNCHANGED auxVars
  /\ EnqueueApplied("p1", FALSE, TRUE)
  /\ rsPc' = "idle"
  /\ UNCHANGED <<calls, rsList, rsDels, rsApps, rsPrior, mbRecv, execRest, handleVars>>

NextBurst ==
  \/ EnqueueBurst
  \/ EnqueueResume
  \/ \E m \in Inst : MailboxRecv(m)

SpecBurst ==
  /\ Init /\ [][NextBurst]_vars
  /\ \A m \in Inst : WF_vars(MailboxRecv(m))
  /\ WF_vars(EnqueueResume)

EnqueueOne == Enqueue({"p1"})

ExecStep(m) ==
  \/ RunAdvance(m)
  \/ RunCompleteOk(m)
  \/ RunCompleteErr(m)
  \/ CheckFires(m)
  \/ TerminatedRun(m)
  \/ DeregObserved(m)
  \/ AsyncDrop(m)
  \/ ApiDelete(m)

NextExec ==
  \/ EnqueueOne
  \/ \E m \in Inst : MailboxRecv(m)
  \/ \E m \in Inst : ExecStep(m)

SpecExec == Init /\ [][NextExec]_vars

(***************************************************************************)
(* The container runtime task (wasi_runtime.rs:126-279) and the status     *)
(* aggregator task of the PodHandle (handle.rs:137-153).                   *)
(***************************************************************************)
\* status_sender.broadcast(Running) (wasi_runtime.rs:240-244)
CtrRunning(m) ==
  /\ ctrOpen[m]
  /\ UNCHANGED auxVars
  /\ ctrStatus[m] = "Waiting"
  /\ ctrStatus' = [ctrStatus EXCEPT ![m] = "Running"]
  /\ ctrVer' = [ctrVer EXCEPT ![m] = @ + 1]
  /\ UNCHANGED <<queueVars, mbVars, execVars, handleState, ctrOpen, aggPc, aggVer>>

\* Variant of the operator below: the task goes on after Terminated.
CtrTaskGoesOn(open) == open
\* return after the broadcast of Terminated (wasi_runtime.rs:176, 214, 233,
\* 265, 277): the closure ends and the Sender is dropped.
CtrTaskEnds(open) == FALSE

\* status_sender.broadcast(Terminated) and the end of the task, which drops
\* the Sender (wasi_runtime.rs:166-177, 204-215, 222-234, 255-277).
\* HandleStopper::stop (wasi_runtime.rs:23-27) sends no signal, so the task
\* ends whenever the module does, stopped or not.
CtrExit(m) ==
  /\ ctrOpen[m]
  /\ UNCHANGED auxVars
  /\ ctrStatus' = [ctrStatus EXCEPT ![m] = "Terminated"]
  /\ ctrVer' = [ctrVer EXCEPT ![m] = @ + 1]
  /\ ctrOpen' = [ctrOpen EXCEPT ![m] = CtrTaskEnds(@)]
  /\ UNCHANGED <<queueVars, mbVars, execVars, handleState, aggPc, aggVer>>

\* A ? of the set-up of the WASI context (wasi_runtime.rs:140-157) ends the
\* task before any broadcast: the Sender is dropped with Waiting held.
CtrSetupFails(m) ==
  /\ ctrOpen[m]
  /\ UNCHANGED auxVars
  /\ ctrStatus[m] = "Waiting"
  /\ ctrOpen' = [ctrOpen EXCEPT ![m] = FALSE]
  /\ UNCHANGED <<queueVars, mbVars, execVars, handleState, ctrStatus, ctrVer,
                 aggPc, aggVer>>

\* One turn of the aggregator loop with Some(s) (handle.rs:139-151): a status
\* the receiver has not seen is taken and the pod status is patched.  The
\* task was spawned and its JoinHandle is only stored: nothing aborts it.
AggPatch(m) ==
  /\ aggPc[m] = "running"
  /\ UNCHANGED auxVars
  /\ aggVer[m] # ctrVer[m]
  /\ aggVer' = [aggVer EXCEPT ![m] = ctrVer[m]]
  /\ latePatch' = [latePatch EXCEPT ![m] = @ \/ apiDeleted[m]]
  /\ UNCHANGED <<queueVars, mbVars, pc, smState, runOutcome, runErr, termRuns,
                 termOutcome, failedPatch, dropCount, firedInRun, trace, apiDeleted,
                 handleState, ctrStatus, ctrVer, ctrOpen, aggPc>>

\* None: every status channel is closed and drained (handle.rs:141-142).
AggExit(m) ==
  /\ aggPc[m] = "running"
  /\ UNCHANGED auxVars
  /\ aggVer[m] = ctrVer[m]
  /\ ~ctrOpen[m]
  /\ aggPc' = [aggPc EXCEPT ![m] = "exited"]
  /\ UNCHANGED <<queueVars, mbVars, execVars, handleState, ctrStatus, ctrVer,
                 ctrOpen, aggVer>>

(***************************************************************************)
(* SpecE5: scenario E5.  One pod is applied; once its state machine is in  *)
(* Running the watch loop enqueues Applied and Deleted events for it.      *)
(***************************************************************************)
E5Apply ==
  /\ calls = 0
  /\ UNCHANGED auxVars
  /\ calls' = 1
  /\ rsPc' = "idle"
  /\ EnqueueApplied("p1", FALSE, TRUE)
  /\ UNCHANGED <<rsList, rsDels, rsApps, rsPrior, mbRecv, execRest, handleVars>>

\* The state machine of the pod is in Running.
InRunning(m) == pc[m] = "running" /\ smState[m] = "Running"

E5Modify ==
  /\ calls \in 1..(MaxCalls - 1)
  /\ UNCHANGED auxVars
  /\ handlers["p1"] # NoInst
  /\ InRunning(handlers["p1"])
  /\ calls' = calls + 1
  /\ rsPc' = "idle"
  /\ EnqueueApplied("p1", FALSE, TRUE)
  /\ UNCHANGED <<rsList, rsDels, rsApps, rsPrior, mbRecv, execRest, handleVars>>

E5Delete ==
  /\ calls \in 1..MaxCalls
  /\ UNCHANGED auxVars
  /\ handlers["p1"] # NoInst
  /\ InRunning(handlers["p1"])
  /\ calls' = calls + 1
  /\ rsPc' = "idle"
  /\ EnqueueDeleted("p1")
  /\ UNCHANGED <<rsList, rsDels, rsApps, rsPrior, mbRecv, execRest, handleVars>>

NextE5 ==
  \/ E5Apply
  \/ E5Modify
  \/ E5Delete
  \/ \E m \in Inst : MailboxRecv(m)
  \/ \E m \in Inst : ExecStep(m)
  \/ \E m \in Inst : CtrRunning(m)
  \/ \E m \in Inst : CtrExit(m)
  \/ \E m \in Inst : CtrSetupFails(m)
  \/ \E m \in Inst : AggPatch(m)
  \/ \E m \in Inst : AggExit(m)

SpecE5 == Init /\ [][NextE5]_vars

(***************************************************************************)
(* SpecDrop: SpecE5 with an owner that drops the PodHandle.                *)
(***************************************************************************)
\* The PodHandle is dropped (struct PodHandle, handle.rs:107-114): its fields
\* are dropped with it, the container handles, the volume refs and the
\* JoinHandle of the aggregator.  Dropping a JoinHandle detaches the task;
\* nothing of the aggregator task changes.
PodHandleDrop(m) ==
  /\ handleState[m] \in {"live", "stopped"}
  /\ UNCHANGED auxVars
  /\ handleState' = [handleState EXCEPT ![m] = "dropped"]
  /\ UNCHANGED <<queueVars, mbVars, execVars, ctrStatus, ctrVer, ctrOpen, aggPc, aggVer>>

NextDrop ==
  \/ E5Apply
  \/ E5Modify
  \/ E5Delete
  \/ \E m \in Inst : MailboxRecv(m)
  \/ \E m \in Inst : ExecStep(m)
  \/ \E m \in Inst : CtrRunning(m)
  \/ \E m \in Inst : CtrExit(m)
  \/ \E m \in Inst : CtrSetupFails(m)
  \/ \E m \in Inst : AggPatch(m)
  \/ \E m \in Inst : AggExit(m)
  \/ \E m \in Inst : PodHandleDrop(m)

SpecDrop == Init /\ [][NextDrop]_vars

(***************************************************************************)
(* SpecPatch: the status patches of one pod as calls that take time.  The  *)
(* aggregator task awaits patch_status in its loop (handle.rs:151); the    *)
(* executor task awaits api.patch_status in the Err arm of its select!     *)
(* (queue.rs:206-207).  The two are separate tokio tasks.                  *)
(***************************************************************************)
\* The aggregator takes a status it has not seen and sends the patch: the
\* call is in flight (handle.rs:139-151).
AggPatchSend(m) ==
  /\ aggPc[m] = "running"
  /\ UNCHANGED auxVars
  /\ aggVer[m] # ctrVer[m]
  /\ aggVer' = [aggVer EXCEPT ![m] = ctrVer[m]]
  /\ aggPc' = [aggPc EXCEPT ![m] = "patching"]
  /\ latePatch' = [latePatch EXCEPT ![m] = @ \/ apiDeleted[m]]
  /\ UNCHANGED <<queueVars, mbVars, pc, smState, runOutcome, runErr, termRuns,
                 termOutcome, failedPatch, dropCount, firedInRun, trace, apiDeleted,
                 handleState, ctrStatus, ctrVer, ctrOpen>>

\* patch_status returns; the loop goes on to the next item of the stream map.
AggPatchDone(m) ==
  /\ aggPc[m] = "patching"
  /\ UNCHANGED auxVars
  /\ aggPc' = [aggPc EXCEPT ![m] = "running"]
  /\ UNCHANGED <<queueVars, mbVars, execVars, handleState, ctrStatus, ctrVer,
                 ctrOpen, aggVer>>

\* The run from the initial state ends with Complete(Err(e)) and the executor
\* sends the phase=Failed patch (queue.rs:191-207): the call is in flight.
FailedPatchSend(m) ==
  /\ pc[m] = "running"
  /\ UNCHANGED auxVars
  /\ smState' = [smState EXCEPT ![m] = "exited"]
  /\ runOutcome' = [runOutcome EXCEPT ![m] = "err"]
  /\ \E e \in Errors :
       /\ runErr' = [runErr EXCEPT ![m] = e]
       /\ failedPatch' = [failedPatch EXCEPT ![m] = DebugFmt(e)]
  /\ pc' = [pc EXCEPT ![m] = "failPatch"]
  /\ UNCHANGED <<queueVars, mbVars, termRuns, termOutcome, dropCount, firedInRun,
                 trace, apiDeleted, latePatch, handleVars>>

\* api.patch_status returns and is unwrapped (queue.rs:206-207).
FailedPatchDone(m) ==
  /\ pc[m] = "failPatch"
  /\ UNCHANGED auxVars
  /\ \E apiOk \in BOOLEAN :
       pc' = [pc EXCEPT ![m] = IF apiOk THEN "waitDereg" ELSE "panicked"]
  /\ UNCHANGED <<queueVars, mbVars, smState, runOutcome, execRest, handleVars>>

NextPatch ==
  \/ E5Apply
  \/ E5Modify
  \/ \E m \in Inst : MailboxRecv(m)
  \/ \E m \in Inst : RunAdvance(m)
  \/ \E m \in Inst : RunCompleteOk(m)
  \/ \E m \in Inst : FailedPatchSend(m)
  \/ \E m \in Inst : FailedPatchDone(m)
  \/ \E m \in Inst : CtrRunning(m)
  \/ \E m \in Inst : CtrExit(m)
  \/ \E m \in Inst : CtrSetupFails(m)
  \/ \E m \in Inst : AggPatchSend(m)
  \/ \E m \in Inst : AggPatchDone(m)
  \/ \E m \in Inst : AggExit(m)

SpecPatch == Init /\ [][NextPatch]_vars

(***************************************************************************)
(* SpecSM: the pod state machine of the provider.  Each action is the next *)
(* method of one state.                                                    *)
(***************************************************************************)
\* The run from InitialState is at state st: start_task has not dropped it
\* for the run from TerminatedState (queue.rs:188-219).
InState(st) == termSm = "none" /\ psState = st

\* make_status(phase, reason) (status.rs:8-20)
MakeStatus(phase, reason) == [phase |-> phase, reason |-> reason]

\* Variant of the operator below: every state reports phase Running.
StateStatusRunning(st) == MakeStatus("Running", st)
\* status / json_status of the states.
StateStatus(st) ==
  CASE st = "Registered"       -> MakeStatus("Pending", "Registered")
    [] st = "ImagePull"        -> MakeStatus("Pending", "ImagePull")
    [] st = "ImagePullBackoff" -> MakeStatus("Pending", "ImagePullBackoff")
    [] st = "CrashLoopBackoff" -> MakeStatus("Pending", "CrashLoopBackoff")
    [] st = "Completed"        -> MakeStatus("Succeeded", "Completed")
    [] st = "Error"            -> MakeStatus("Pending", "Error")
    [] st = "Terminated"       -> MakeStatus("Succeeded", "Terminated")

\* The status of VolumeMount, Starting and Running.
RunStateStatus(st) ==
  IF st = "Running" THEN MakeStatus("Running", st) ELSE MakeStatus("Pending", st)

\* The execution loop patches the status of a state before it calls its next.
Publish(st) ==
  phaseSeen' = phaseSeen \cup
     {IF st \in {"VolumeMount", "Starting", "Running"}
      THEN RunStateStatus(st).phase
      ELSE StateStatus(st).phase}

\* Entering the Error state (transition_to_error!, states.rs:10-18).
EnterError ==
  /\ psState' = "Error"
  /\ errEntries' = errEntries + 1
  /\ errRow' = errRow + 1
  /\ errTotal' = errTotal + 1

\* Registered::next (registered.rs:33-45): Error when validate_pod_runnable
\* fails, ImagePull otherwise.
RegisteredNext ==
  /\ InState("Registered")
  /\ Publish(psState)
  /\ \E runnable \in BOOLEAN :
       IF runnable
       THEN /\ psState' = "ImagePull"
            /\ errRow' = 0
            /\ UNCHANGED <<errEntries, errTotal>>
       ELSE /\ errEntries < MaxErrEntries
            /\ EnterError
  /\ UNCHANGED <<psErrors, pullFails, errOut, boVars, runVars, coreVars,
                 manVars, libVars>>

\* BackoffStrategy::wait sleeps for the current delay and counts the wait;
\* BackoffStrategy::reset starts the count again.
BackoffWait(n) == n + 1
BackoffReset(n) == 0

\* The base and the largest delay of a policy, in seconds.
BackoffBase == 2
BackoffMax == 5

Min(a, b) == IF a <= b THEN a ELSE b

\* The delay of the wait that follows n waits: min(base * 2^n, max).
BackoffDelay(n) == Min(BackoffBase * 2^n, BackoffMax)

\* Variant of the operator below: the policy is left alone after a fetch.
PullBackoffKept(fetched, n) == n
\* The image-pull backoff policy after fetch_pod_modules: reset() on Ok, and
\* an early return on Err (image_pull.rs:20-32).
PullBackoffAfter(fetched, n) == IF fetched THEN BackoffReset(n) ELSE n

\* ImagePull::next (image_pull.rs:17-34)
ImagePullNext ==
  /\ InState("ImagePull")
  /\ Publish(psState)
  /\ \E fetched \in BOOLEAN :
       /\ pullBackoff' = PullBackoffAfter(fetched, pullBackoff)
       /\ IF fetched
          THEN /\ psState' = "VolumeMount"
               /\ pullFails' = pullFails
               /\ pullRun' = 0
               /\ pullWaits' = <<>>
          ELSE /\ pullFails < MaxPullFails
               /\ pullFails' = pullFails + 1
               /\ pullRun' = pullRun + 1
               /\ psState' = "ImagePullBackoff"
               /\ pullWaits' = pullWaits
  /\ UNCHANGED <<psErrors, errEntries, errRow, errTotal, errOut, crashBackoff,
                 crashWaits, runVars, coreVars,
                 manVars, libVars>>

\* ImagePullBackoff::next (image_pull_backoff.rs:13-21)
ImagePullBackoffNext ==
  /\ InState("ImagePullBackoff")
  /\ Publish(psState)
  /\ pullBackoff' = BackoffWait(pullBackoff)
  /\ pullWaits' = Append(pullWaits, BackoffDelay(pullBackoff))
  /\ psState' = "ImagePull"
  /\ UNCHANGED <<psErrors, pullFails, errEntries, errRow, errTotal, errOut,
                 crashBackoff, pullRun, crashWaits, runVars, coreVars,
                 manVars, libVars>>

\* VolumeMount, Starting and Running: the pod advances, and a failure of
\* its containers in Running sends it to Error.
VolumeMountNext ==
  /\ InState("VolumeMount")
  /\ Publish(psState)
  /\ psState' = "Starting"
  /\ UNCHANGED <<psErrors, pullFails, errEntries, errRow, errTotal, errOut,
                 boVars, runVars, coreVars,
                 manVars, libVars>>

StartingNext ==
  /\ InState("Starting")
  /\ Publish(psState)
  /\ psState' = "Running"
  /\ UNCHANGED <<psErrors, pullFails, errEntries, errRow, errTotal, errOut,
                 boVars, runVars, coreVars,
                 manVars, libVars>>

RunningNext ==
  /\ InState("Running")
  /\ Publish(psState)
  /\ \E failed \in BOOLEAN :
       IF failed
       THEN errEntries < MaxErrEntries /\ EnterError
       ELSE psState' = "Completed" /\ UNCHANGED <<errEntries, errRow, errTotal>>
  /\ UNCHANGED <<psErrors, pullFails, errOut, boVars, runVars, coreVars,
                 manVars, libVars>>

\* Completed::next (completed.rs:10-17): Transition::Complete(Ok(()))
CompletedNext ==
  /\ InState("Completed")
  /\ Publish(psState)
  /\ psState' = "exited"
  /\ UNCHANGED <<psErrors, pullFails, errEntries, errRow, errTotal, errOut,
                 boVars, runVars, coreVars,
                 manVars, libVars>>

\* Variant of the operator below: the counter is compared with >=.
ErrorsReached(n) == n >= ErrorThreshold
\* if pod_state.errors > 3 (error.rs:22)
ErrorsExceeded(n) == n > ErrorThreshold

\* Variant of the operator below: the retry skips Registered.
ErrorTargetImagePull(n) == IF ErrorsExceeded(n) THEN "CrashLoopBackoff" ELSE "ImagePull"
\* The state Error::next goes to (error.rs:22-28).
ErrorTarget(n) == IF ErrorsExceeded(n) THEN "CrashLoopBackoff" ELSE "Registered"

\* Error::next (error.rs:16-29)
ErrorNext ==
  /\ InState("Error")
  /\ Publish(psState)
  /\ LET n == psErrors + 1
         to == ErrorTarget(n)
     IN /\ psErrors' = IF ErrorsExceeded(n) THEN 0 ELSE n
        /\ psState' = to
        /\ errOut' = Append(errOut, [row |-> errRow, total |-> errTotal, to |-> to])
        /\ errRow' = IF to = "CrashLoopBackoff" THEN 0 ELSE errRow
        /\ errTotal' = IF to = "CrashLoopBackoff" THEN 0 ELSE errTotal
  /\ UNCHANGED <<pullFails, errEntries, boVars, runVars, coreVars,
                 manVars, libVars>>

\* CrashLoopBackoff::next (crash_loop_backoff.rs:13-21)
CrashLoopBackoffNext ==
  /\ InState("CrashLoopBackoff")
  /\ Publish(psState)
  /\ crashBackoff' = BackoffWait(crashBackoff)
  /\ crashWaits' = Append(crashWaits, BackoffDelay(crashBackoff))
  /\ psState' = "Registered"
  /\ UNCHANGED <<psErrors, pullFails, errEntries, errRow, errTotal, errOut,
                 pullBackoff, pullRun, pullWaits, runVars, coreVars,
                 manVars, libVars>>

\* The check arm of start_task (queue.rs:212-219): the pod is deleted during
\* the run, the run is dropped and a run from TerminatedState starts.
TerminatedStart ==
  /\ termSm = "none"
  /\ psState \notin {"exited"}
  /\ termSm' = "Terminated"
  /\ UNCHANGED <<psState, psErrors, pullFails, errEntries, errRow, errTotal, errOut,
                 boVars, ctrSm, phaseSeen, coreVars, manVars, libVars>>

\* Terminated::next (wascc states/pod/terminated.rs:10-19): Complete(Err(e))
\* when the stop of the pod's handle fails, Complete(Ok(())) otherwise.
PodTerminatedNext ==
  /\ termSm = "Terminated"
  /\ Publish(termSm)
  /\ \E stopped \in BOOLEAN : termSm' = IF stopped THEN "exited" ELSE "failed"
  /\ UNCHANGED <<psState, psErrors, pullFails, errEntries, errRow, errTotal, errOut,
                 boVars, ctrSm, coreVars, manVars, libVars>>

\* Waiting::next of the container state machine (container/waiting.rs:12-19)
\* is todo!(): it panics and returns nothing.
WaitingNext ==
  /\ ctrSm = "Waiting"
  /\ ctrSm' = "panicked"
  /\ UNCHANGED <<psState, psErrors, pullFails, errEntries, errRow, errTotal, errOut,
                 boVars, termSm, phaseSeen, coreVars, manVars, libVars>>

NextSM ==
  \/ RegisteredNext
  \/ ImagePullNext
  \/ ImagePullBackoffNext
  \/ VolumeMountNext
  \/ StartingNext
  \/ RunningNext
  \/ CompletedNext
  \/ ErrorNext
  \/ CrashLoopBackoffNext
  \/ TerminatedStart
  \/ PodTerminatedNext
  \/ WaitingNext

SpecSM == Init /\ [][NextSM]_vars

(***************************************************************************)
(* SpecStore: the Store (store.rs) shared by tasks.  Every method takes    *)
(* the RwLock first (write() for the writers, read() for get), runs with   *)
(* no suspension while it holds the guard, and releases on return.         *)
(***************************************************************************)
OkNone == <<"Ok", "None">>
OkSome(id) == <<"Ok", "Some", id>>
ErrMismatch == <<"Err">>
Panicked == <<"Panic">>

\* (*objects).entry(key).or_insert_with(HashMap::new)
EntryOrInsert(S, t) == [S EXCEPT !.outer = @ \cup {t}]

\* Variant of the operator below: an object already present is kept.
InnerInsertIfAbsent(S, t, k, obj) ==
  IF S.inner[t][k] = Absent THEN [S EXCEPT !.inner[t][k] = obj] ELSE S
\* resource_objects.insert(object_key, object)
InnerInsert(S, t, k, obj) == [S EXCEPT !.inner[t][k] = obj]

\* Store::insert_any (store.rs:67-79); Store::insert (store.rs:31-42) is the
\* same with the key and the type of the object both R.
StoreInsertAny(S, t, k, obj) == InnerInsert(EntryOrInsert(S, t), t, k, obj)

\* Variant of the operator below: the whole cache is cleared.
StoreResetAll(S, t) ==
  [outer |-> S.outer \cup {t}, inner |-> [u \in Types |-> [k \in ObjKeys |-> Absent]]]
\* Store::reset (store.rs:45-50)
StoreReset(S, t) ==
  [EntryOrInsert(S, t) EXCEPT !.inner[t] = [k \in ObjKeys |-> Absent]]

\* Store::delete_any (store.rs:53-64)
StoreDeleteAny(S, t, k) == [EntryOrInsert(S, t) EXCEPT !.inner[t][k] = Absent]

\* Variant of the operator below: a failed downcast is reported as no object.
DowncastOrNone(obj, R) == IF obj[2] = R THEN OkSome(obj[3]) ELSE OkNone
\* Variant of the operator below: the downcast is unwrapped.
DowncastUnwrap(obj, R) == IF obj[2] = R THEN OkSome(obj[3]) ELSE Panicked
\* any_object.downcast_ref::<R>() and what get makes of it (store.rs:92-101)
Downcast(obj, R) == IF obj[2] = R THEN OkSome(obj[3]) ELSE ErrMismatch

\* Store::get::<R> (store.rs:82-108)
StoreGet(S, R, k) ==
  IF R \notin S.outer THEN OkNone
  ELSE IF S.inner[R][k] = Absent THEN OkNone
  ELSE Downcast(S.inner[R][k], R)

IsWrite(op) == op.kind \in {"insert", "insert_any", "delete_any", "reset"}

\* The tasks that hold the write guard, or a read guard.
Holders(kinds) == {c \in StClients : stPc[c] = "holding" /\ stOp[c].kind \in kinds}

\* A task calls a method of the store and is given the lock by
\* self.objects.write().await or self.objects.read().await: a writer waits
\* for every guard to be gone, a reader for the write guard.  Idle tasks are
\* alike, so the first of them makes the call; insert_any is called with an
\* object of another type than its key, since with the type of its key it
\* does what insert does.
StoreCall(c) ==
  /\ stPc[c] = "idle"
  /\ c = CHOOSE d \in StClients : stPc[d] = "idle"
  /\ stCalls < MaxStoreCalls
  /\ stCalls' = stCalls + 1
  /\ stPc' = [stPc EXCEPT ![c] = "holding"]
  /\ \E t \in Types, k \in ObjKeys, ty \in Types,
        kind \in {"insert", "insert_any", "delete_any", "reset", "get"} :
       /\ kind \in {"insert", "delete_any", "reset", "get"} => ty = t
       /\ kind = "insert_any" => ty # t
       /\ kind = "reset" => k = "a"
       /\ Holders({"insert", "insert_any", "delete_any", "reset"}) = {}
       /\ kind # "get" => Holders({"get"}) = {}
       /\ stOp' = [stOp EXCEPT ![c] = [kind |-> kind, t |-> t, k |-> k, ty |-> ty]]
  /\ UNCHANGED <<objects, stIds, stLatest, stWritten, stSeen, stLastRun>>
  /\ UNCHANGED <<coreVars, smVars, manVars, podHandleVars, subVars, initVars,
                 wasccVars>>

\* The body of the method, under the guard, and its return.
StoreRun(c) ==
  /\ stPc[c] = "holding"
  /\ LET op == stOp[c]
         id == stIds + 1
         res == IF op.kind = "get" THEN StoreGet(objects, op.t, op.k) ELSE <<"Unit">>
     IN  /\ objects' =
              CASE op.kind \in {"insert", "insert_any"} ->
                     StoreInsertAny(objects, op.t, op.k, Obj(op.ty, id))
                [] op.kind = "delete_any" -> StoreDeleteAny(objects, op.t, op.k)
                [] op.kind = "reset"      -> StoreReset(objects, op.t)
                [] op.kind = "get"        -> objects
         /\ stIds' = IF op.kind \in {"insert", "insert_any"} THEN id ELSE stIds
         /\ stLatest' =
              CASE op.kind \in {"insert", "insert_any"} ->
                     [stLatest EXCEPT ![op.t][op.k] = Obj(op.ty, id)]
                [] op.kind = "delete_any" -> [stLatest EXCEPT ![op.t][op.k] = Absent]
                [] op.kind = "reset"      ->
                     [stLatest EXCEPT ![op.t] = [k \in ObjKeys |-> Absent]]
                [] op.kind = "get"        -> stLatest
         /\ stWritten' = IF op.kind \in {"insert", "insert_any"}
                         THEN [stWritten EXCEPT ![op.t][op.k] = @ \cup {id}]
                         ELSE stWritten
         /\ stSeen' = IF res[1] = "Ok" /\ res[2] = "Some"
                      THEN [stSeen EXCEPT ![op.t][op.k] = res[3]]
                      ELSE stSeen
         /\ stLastRun' = [op |-> op, res |-> res, found |-> objects.inner[op.t][op.k],
                          latest |-> stLatest[op.t][op.k], before |-> objects,
                          seen |-> stSeen[op.t][op.k]]
         /\ stPc' = [stPc EXCEPT ![c] = IF res = Panicked THEN "panicked" ELSE "idle"]
  /\ UNCHANGED <<stOp, stCalls>>
  /\ UNCHANGED <<coreVars, smVars, manVars, podHandleVars, subVars, initVars,
                 wasccVars>>

NextStore ==
  \/ \E c \in StClients : StoreCall(c)
  \/ \E c \in StClients : StoreRun(c)

SpecStore == Init /\ [][NextStore]_vars

(***************************************************************************)
(* SpecHandle: a PodHandle over two containers, the workloads of the       *)
(* containers, the status aggregator task and a caller of PodHandle::stop  *)
(* and PodHandle::wait.                                                    *)
(***************************************************************************)
hRest == <<coreVars, smVars, manVars, storeVars, subVars, initVars, wasccVars>>

\* PodHandle::new (handle.rs:122-160) over running containers.
HandleCreate ==
  /\ hStopper = "none"
  /\ hStopper' \in Stoppers
  /\ hRun' = [c \in Ctrs |-> TRUE]
  /\ UNCHANGED <<hAggDone, hCall, hCalls, hStops, hStopErrs, hWaits, hRest>>

\* The workload of a container exits by itself; its task ends and drops
\* the status Sender.
WorkloadExit(c) ==
  /\ hRun[c]
  /\ hRun' = [hRun EXCEPT ![c] = FALSE]
  /\ UNCHANGED <<hStopper, hAggDone, hCall, hCalls, hStops, hStopErrs, hWaits, hRest>>

\* The aggregator loop gets None from the stream map once every status
\* channel is closed, and returns (handle.rs:139-143).
AggregatorReturns ==
  /\ hStopper # "none"
  /\ ~hAggDone
  /\ \A c \in Ctrs : ~hRun[c]
  /\ hAggDone' = TRUE
  /\ UNCHANGED <<hStopper, hRun, hCall, hCalls, hStops, hStopErrs, hWaits, hRest>>

\* Stop::stop of the three implementations: the results it may return and
\* whether the workload is gone when it returns.  HandleStopper::stop
\* (wasi_runtime.rs:23-27) does nothing; ActorStopper::stop (wascc lib.rs:
\* 76-87) removes the actor or fails to; the third sends a signal or fails to.
StopResults(stopper) == IF stopper = "HandleStopper" THEN {"Ok"} ELSE {"Ok", "Err"}
StopEnds(stopper, res) == stopper = "ActorStopper" /\ res = "Ok"

\* Stop::wait: HandleStopper::wait (wasi_runtime.rs:29-33) and
\* ActorStopper::wait (wascc lib.rs:89-92) return Ok(()) at once; the third
\* returns when the workload has exited, with either result.
WaitReady(stopper, running) ==
  IF stopper \in {"HandleStopper", "ActorStopper"} THEN TRUE ELSE ~running
WaitResults(stopper) ==
  IF stopper \in {"HandleStopper", "ActorStopper"} THEN {"Ok"} ELSE {"Ok", "Err"}

\* A task calls PodHandle::stop (handle.rs:183-185).
StopCall ==
  /\ hStopper # "none"
  /\ hCall.op = "none"
  /\ hCalls < MaxHandleCalls
  /\ hCalls' = hCalls + 1
  /\ hCall' = [op |-> "stop", todo |-> Ctrs, ret |-> "none"]
  /\ hStops' = [c \in Ctrs |-> 0]
  /\ hStopErrs' = {}
  /\ UNCHANGED <<hStopper, hRun, hAggDone, hWaits, hRest>>

\* Variant of the operator below: the loop ends at the first error.
StopLoopUntilErr(todo, c, res) == IF res = "Err" THEN {} ELSE todo \ {c}
\* The for loop of stop goes on to the other handles on Ok and on Err
\* (handle.rs:186-195).
StopLoopOn(todo, c, res) == todo \ {c}

\* One turn of the loop: handle.stop().await of a handle not yet visited,
\* in the order the HashMap yields them.
StopNext(c) ==
  /\ hCall.op = "stop" /\ hCall.ret = "none"
  /\ c \in hCall.todo
  /\ \E res \in StopResults(hStopper) :
       /\ hCall' = [hCall EXCEPT !.todo = StopLoopOn(@, c, res)]
       /\ hStopErrs' = IF res = "Err" THEN hStopErrs \cup {c} ELSE hStopErrs
       /\ hRun' = IF StopEnds(hStopper, res) THEN [hRun EXCEPT ![c] = FALSE] ELSE hRun
  /\ hStops' = [hStops EXCEPT ![c] = @ + 1]
  /\ UNCHANGED <<hStopper, hAggDone, hCalls, hWaits, hRest>>

\* Ok(()) after the loop (handle.rs:197).
StopReturn ==
  /\ hCall.op = "stop" /\ hCall.ret = "none"
  /\ hCall.todo = {}
  /\ hCall' = [hCall EXCEPT !.ret = "Ok"]
  /\ UNCHANGED <<hStopper, hRun, hAggDone, hCalls, hStops, hStopErrs, hWaits, hRest>>

\* A task calls PodHandle::wait (handle.rs:201-202).
WaitCall ==
  /\ hStopper # "none"
  /\ hCall.op = "none"
  /\ hCalls < MaxHandleCalls
  /\ hCalls' = hCalls + 1
  /\ hCall' = [op |-> "wait", todo |-> Ctrs, ret |-> "none"]
  /\ hWaits' = [c \in Ctrs |-> NotWaited]
  /\ UNCHANGED <<hStopper, hRun, hAggDone, hStops, hStopErrs, hRest>>

\* One turn of the loop of wait: handle.wait().await? (handle.rs:203-206).
\* An Err leaves the function at once.
WaitNext(c) ==
  /\ hCall.op = "wait" /\ hCall.ret = "none"
  /\ c \in hCall.todo
  /\ WaitReady(hStopper, hRun[c])
  /\ \E res \in WaitResults(hStopper) :
       /\ hWaits' = [hWaits EXCEPT ![c] = [res |-> res, exited |-> ~hRun[c]]]
       /\ hCall' = IF res = "Err"
                   THEN [hCall EXCEPT !.ret = "Err"]
                   ELSE [hCall EXCEPT !.todo = @ \ {c}]
  /\ UNCHANGED <<hStopper, hRun, hAggDone, hCalls, hStops, hStopErrs, hRest>>

\* (&mut self.status_handle).await? and Ok(()) (handle.rs:207-208): the
\* JoinHandle resolves when the aggregator task has returned.
WaitJoin ==
  /\ hCall.op = "wait" /\ hCall.ret = "none"
  /\ hCall.todo = {}
  /\ hAggDone
  /\ hCall' = [hCall EXCEPT !.ret = "Ok"]
  /\ UNCHANGED <<hStopper, hRun, hAggDone, hCalls, hStops, hStopErrs, hWaits, hRest>>

\* The caller has its result and may call again.
CallDone ==
  /\ hCall.ret # "none"
  /\ hCalls < MaxHandleCalls
  /\ hCall' = NoCall
  /\ UNCHANGED <<hStopper, hRun, hAggDone, hCalls, hStops, hStopErrs, hWaits, hRest>>

NextHandle ==
  \/ HandleCreate
  \/ \E c \in Ctrs : WorkloadExit(c)
  \/ AggregatorReturns
  \/ StopCall
  \/ \E c \in Ctrs : StopNext(c)
  \/ StopReturn
  \/ WaitCall
  \/ \E c \in Ctrs : WaitNext(c)
  \/ WaitJoin
  \/ CallDone

SpecHandle == Init /\ [][NextHandle]_vars

(***************************************************************************)
(* SpecStatus: the status channel of the container of pod p1, its runtime  *)
(* task, and two subscriptions returned by RuntimeHandle::status.  The     *)
(* Receiver the handle keeps is never polled, so a clone of it has seen    *)
(* no version of the channel.                                              *)
(***************************************************************************)
\* The instance whose container the subscriptions are about.
SubInst == handlers["p1"]

\* RuntimeHandle::status (handle.rs:92-94; RuntimeContainer::status,
\* container/handle.rs:63-65): self.status_channel.clone()
StatusSubscribe(s) ==
  /\ SubInst # NoInst
  /\ handleState[SubInst] = "live"
  /\ ~subLive[s]
  /\ subLive' = [subLive EXCEPT ![s] = TRUE]
  /\ subSeen' = [subSeen EXCEPT ![s] = 0]
  /\ UNCHANGED <<subEnd, subOut, coreVars, smVars, manVars, storeVars, podHandleVars,
                 initVars, wasccVars>>

\* Variant of the operator below: a closed channel ends the stream at once.
RecvClosedFirst(seen, ver, open) ==
  IF ~open THEN "none" ELSE IF seen # ver THEN "value" ELSE "pending"
\* A poll of a watch Receiver: a version not yet seen yields the value the
\* channel holds; otherwise a closed channel yields None; otherwise the poll
\* is pending.
RecvReady(seen, ver, open) ==
  IF seen # ver THEN "value" ELSE IF ~open THEN "none" ELSE "pending"

\* The subscriber polls its Receiver and gets an item.
StatusPoll(s) ==
  /\ subLive[s] /\ ~subEnd[s]
  /\ LET m == SubInst
         got == RecvReady(subSeen[s], ctrVer[m], ctrOpen[m])
     IN  /\ got # "pending"
         /\ subSeen' = [subSeen EXCEPT ![s] = ctrVer[m]]
         /\ subOut' = IF got = "value"
                      THEN [subOut EXCEPT ![s] = Append(@, ctrStatus[m])]
                      ELSE subOut
         /\ subEnd' = [subEnd EXCEPT ![s] = got = "none"]
  /\ UNCHANGED <<subLive, coreVars, smVars, manVars, storeVars, podHandleVars,
                 initVars, wasccVars>>

NextStatus ==
  \/ E5Apply
  \/ \E m \in Inst : RunAdvance(m)
  \/ \E m \in Inst : CtrRunning(m)
  \/ \E m \in Inst : CtrExit(m)
  \/ \E m \in Inst : CtrSetupFails(m)
  \/ \E s \in Subs : StatusSubscribe(s)
  \/ \E s \in Subs : StatusPoll(s)

SpecStatus == Init /\ [][NextStatus]_vars

(***************************************************************************)
(* SpecInit: the containers of a pod with init containers.  The states     *)
(* that run the containers of a pod are not part of the sources at hand;   *)
(* the steps follow scenarios E2 and E3 of the specification: the init     *)
(* containers run in declaration order, each to its end, the main          *)
(* containers start after the last of them, and a failed init container    *)
(* fails the pod.                                                          *)
(***************************************************************************)
initRest == <<coreVars, smVars, manVars, storeVars, podHandleVars, subVars, wasccVars>>

TerminatedOk == "Terminated"
TerminatedFailed == "TerminatedFailed"

\* Variant of the operator below: an init container that has ended counts,
\* whatever its result.
InitsEnded(st, n) == \A i \in 1..n : st[i] \in {TerminatedOk, TerminatedFailed}
\* The first n init containers have run to completion with success.
InitsDone(st, n) == \A i \in 1..n : st[i] = TerminatedOk

\* The i-th init container is started once those before it are done.
InitCtrStart(i) ==
  /\ icStatus[i] = "NotStarted"
  /\ InitsDone(icStatus, i - 1)
  /\ icStatus' = [icStatus EXCEPT ![i] = "Running"]
  /\ UNCHANGED <<mainStatus, podPhase, podMessage, initRest>>

\* The init container ends; a failure fails the pod with a message that
\* names the container.
InitCtrExit(i) ==
  /\ icStatus[i] = "Running"
  /\ \E ok \in BOOLEAN :
       IF ok
       THEN /\ icStatus' = [icStatus EXCEPT ![i] = TerminatedOk]
            /\ UNCHANGED <<podPhase, podMessage>>
       ELSE /\ icStatus' = [icStatus EXCEPT ![i] = TerminatedFailed]
            /\ podPhase' = "Failed"
            /\ podMessage' = <<"Init container", InitCtrs[i], "failed">>
  /\ UNCHANGED <<mainStatus, initRest>>

\* A main container is started once every init container is done.
MainCtrStart(c) ==
  /\ mainStatus[c] = "NotStarted"
  /\ InitsDone(icStatus, Len(InitCtrs))
  /\ mainStatus' = [mainStatus EXCEPT ![c] = "Running"]
  /\ podPhase' = "Running"
  /\ UNCHANGED <<icStatus, podMessage, initRest>>

\* A main container ends.
MainCtrExit(c) ==
  /\ mainStatus[c] = "Running"
  /\ \E ok \in BOOLEAN :
       mainStatus' = [mainStatus EXCEPT ![c] = IF ok THEN TerminatedOk ELSE TerminatedFailed]
  /\ UNCHANGED <<icStatus, podPhase, podMessage, initRest>>

\* Every main container has ended: the pod is Succeeded, or Failed when one
\* of them failed.
PodEnds ==
  /\ podPhase = "Running"
  /\ \A c \in MainCtrs : mainStatus[c] \in {TerminatedOk, TerminatedFailed}
  /\ podPhase' = IF \A c \in MainCtrs : mainStatus[c] = TerminatedOk
                 THEN "Succeeded" ELSE "Failed"
  /\ UNCHANGED <<icStatus, mainStatus, podMessage, initRest>>

NextInit ==
  \/ \E i \in DOMAIN InitCtrs : InitCtrStart(i)
  \/ \E i \in DOMAIN InitCtrs : InitCtrExit(i)
  \/ \E c \in MainCtrs : MainCtrStart(c)
  \/ \E c \in MainCtrs : MainCtrExit(c)
  \/ PodEnds

SpecInit == Init /\ [][NextInit]_vars

(***************************************************************************)
(* SpecWascc: add and delete of the waSCC provider (wascc lib.rs:172-281). *)
(* The caller awaits each call, so one call runs at a time; add is called  *)
(* once for a pod, delete after it.                                        *)
(***************************************************************************)
wasccRest == <<coreVars, smVars, manVars, storeVars, podHandleVars, subVars, initVars>>

\* add up to the container loop (wascc lib.rs:172-182): fetch_pod_modules(
\* &pod).await? returns its error before any container is looked at.
WasccAddStart(p) ==
  /\ wPc = "idle"
  /\ wResult[p] = "none"
  /\ \E fetchOk \in BOOLEAN :
       IF fetchOk
       THEN /\ wPc' = "adding"
            /\ wPod' = p
            /\ wTodo' = WCtrs
            /\ UNCHANGED wResult
       ELSE /\ wResult' = [wResult EXCEPT ![p] = "Err"]
            /\ UNCHANGED <<wPc, wPod, wTodo>>
  /\ UNCHANGED <<wHandles, wStarted, wFailed, wPatched, wDelete, wasccRest>>

\* Variant of the operator below: the Err arm patches the status and the
\* loop goes on to the next container.
StartFailedGoesOn(p, c) ==
  /\ wPatched' = [wPatched EXCEPT ![p] = @ \cup {c}]
  /\ wFailed' = [wFailed EXCEPT ![p] = c]
  /\ wTodo' = Tail(wTodo)
  /\ UNCHANGED <<wResult, wPc, wStarted>>
\* The Err arm of the match on http_result (wascc lib.rs:209-228): the
\* container's status Terminated{failed: true} is patched and add returns
\* Err; the handles of the containers started before are dropped.
StartFailed(p, c) ==
  /\ wPatched' = [wPatched EXCEPT ![p] = @ \cup {c}]
  /\ wFailed' = [wFailed EXCEPT ![p] = c]
  /\ wResult' = [wResult EXCEPT ![p] = "Err"]
  /\ wPc' = "idle"
  /\ UNCHANGED <<wTodo, wStarted>>

\* The Ok arm (wascc lib.rs:201-208): the handle is kept in the local map
\* container_handles and Running is broadcast.
StartOk(p, c) ==
  /\ wStarted' = [wStarted EXCEPT ![p] = @ \cup {c}]
  /\ wTodo' = Tail(wTodo)
  /\ UNCHANGED <<wPatched, wFailed, wResult, wPc>>

\* One iteration of the container loop (wascc lib.rs:183-229):
\* wascc_run_http adds the actor to the host and binds its capabilities
\* (lib.rs:332-373) and returns a handle, or an error.
WasccStartContainer ==
  /\ wPc = "adding"
  /\ wTodo # <<>>
  /\ \E ok \in BOOLEAN :
       IF ok THEN StartOk(wPod, Head(wTodo)) ELSE StartFailed(wPod, Head(wTodo))
  /\ UNCHANGED <<wHandles, wPod, wDelete, wasccRest>>

\* After the loop (wascc lib.rs:231-244): the PodHandle over
\* container_handles is inserted into the handles map and add returns Ok.
WasccAddInsert ==
  /\ wPc = "adding"
  /\ wTodo = <<>>
  /\ wHandles' = [wHandles EXCEPT ![wPod] = <<wStarted[wPod]>>]
  /\ wResult' = [wResult EXCEPT ![wPod] = "Ok"]
  /\ wPc' = "idle"
  /\ UNCHANGED <<wPod, wTodo, wStarted, wFailed, wPatched, wDelete, wasccRest>>

\* delete (wascc lib.rs:260-281): the entry is removed and stopped; when the
\* stop fails (ActorStopper::stop, lib.rs:75-87) the entry is put back; with
\* no entry there is nothing to stop.  Ok(()) in every case.
WasccDelete(p) ==
  /\ wPc = "idle"
  /\ wResult[p] # "none"
  /\ wDelete[p] \in {"none", "stopFailed"}
  /\ IF wHandles[p] # NoHandle
     THEN \E stopOk \in BOOLEAN :
            IF stopOk
            THEN /\ wHandles' = [wHandles EXCEPT ![p] = NoHandle]
                 /\ wDelete' = [wDelete EXCEPT ![p] = "stopped"]
            ELSE /\ UNCHANGED wHandles
                 /\ wDelete' = [wDelete EXCEPT ![p] = "stopFailed"]
     ELSE /\ UNCHANGED wHandles
          /\ wDelete' = [wDelete EXCEPT ![p] = "notFound"]
  /\ UNCHANGED <<wPc, wPod, wTodo, wStarted, wFailed, wPatched, wResult, wasccRest>>

NextWascc ==
  \/ \E p \in WPods : WasccAddStart(p)
  \/ WasccStartContainer
  \/ WasccAddInsert
  \/ \E p \in WPods : WasccDelete(p)

SpecWascc == Init /\ [][NextWascc]_vars

(***************************************************************************)
(* SpecManifest: the manifest channel (manifest.rs).  A Manifest holds a   *)
(* watch Receiver and a WatchStream over a clone of it; the writer is the  *)
(* watch Sender.  Values sent are distinct: the k-th send sends k.         *)
(***************************************************************************)
\* The version of the watch channel: the number of sends.
Version == Len(sentLog) - 1

\* Variant of the operator below: the stream yields the oldest value it has not seen.
BorrowNextUnseen(log, seen) == IF seen + 2 <= Len(log) THEN log[seen + 2] ELSE log[Len(log)]
\* (*rx.borrow()).clone(): the value the channel holds now.
Borrow(log, seen) == log[Len(log)]

\* Poll::Ready(Some(v)), Poll::Ready(None) and Poll::Pending
Some(v) == <<"Some", v>>
None == <<"None">>
Pending == <<"Pending">>

\* tx.send(i) (manifest.rs:68)
WriterSend ==
  /\ wOpen
  /\ Version < MaxSends
  /\ sentLog' = Append(sentLog, Version + 1)
  /\ rdSkipped' = [r \in Readers |->
                     IF Version >= 1 /\ ~rdPolledSince[r]
                     THEN rdSkipped[r] \cup {Some(sentLog[Len(sentLog)])}
                     ELSE rdSkipped[r]]
  /\ rdCoalesced' = [r \in Readers |->
                       rdCoalesced[r] \/ (Version >= 1 /\ ~rdPolledSince[r])]
  /\ rdPolledSince' = [r \in Readers |-> FALSE]
  /\ UNCHANGED <<wOpen, rdLive, rdSeen, rdFirst, rdOut, rdBorn, rdLatest,
                 coreVars, smVars,
                 libVars>>

\* drop(tx) (manifest.rs:71)
WriterDrop ==
  /\ wOpen
  /\ wOpen' = FALSE
  /\ UNCHANGED <<sentLog, rdLive, rdSeen, rdFirst, rdOut, rdSkipped, rdPolledSince,
                 rdCoalesced, rdBorn, rdLatest, coreVars, smVars,
                 libVars>>

\* Manifest::clone (manifest.rs:13-20): a new stream over a clone of rx.  The
\* rx of a Manifest is never awaited, so it has marked nothing as seen.
ManifestClone(r) ==
  /\ ~rdLive[r]
  /\ \E from \in Readers : rdLive[from]
  /\ rdLive' = [rdLive EXCEPT ![r] = TRUE]
  /\ rdBorn' = [rdBorn EXCEPT ![r] = sentLog[Len(sentLog)]]
  /\ UNCHANGED <<sentLog, wOpen, rdSeen, rdFirst, rdOut, rdSkipped, rdPolledSince,
                 rdCoalesced, rdLatest, coreVars, smVars,
                 libVars>>

\* Variant of the operator below: a closed channel is not noticed.
ChangedNeverCloses(open) == Pending
\* Receiver::changed with no unseen version: Err when the Sender is gone
\* (the stream yields None), else the future stays pending.
ChangedWhenSeen(open) == IF open THEN Pending ELSE None

\* The result of a poll recorded in the history of the reader.
PollRecord(r, item) ==
  [item |-> item, latest |-> Some(sentLog[Len(sentLog)]), coalesced |-> rdCoalesced[r]]

\* Manifest::poll_next (manifest.rs:41-43), that is WatchStream::poll_next.
\* The first poll yields the borrowed value; whether it also marks the
\* version as seen depends on the tokio-stream release.  A later poll is
\* Receiver::changed followed by a borrow: an unseen version yields the
\* value, a closed channel yields None, otherwise the poll is Pending.
ManifestPoll(r) ==
  /\ rdLive[r]
  /\ Len(rdOut[r]) < MaxPolls
  /\ (rdOut[r] # <<>>) => rdOut[r][Len(rdOut[r])].item # None
  /\ \/ /\ rdFirst[r]
        /\ rdFirst' = [rdFirst EXCEPT ![r] = FALSE]
        /\ \E marks \in BOOLEAN :
             rdSeen' = [rdSeen EXCEPT ![r] = IF marks THEN Version ELSE @]
        /\ rdOut' = [rdOut EXCEPT ![r] = Append(@, PollRecord(r, Some(Borrow(sentLog, rdSeen[r]))))]
     \/ /\ ~rdFirst[r]
        /\ rdSeen[r] # Version
        /\ rdSeen' = [rdSeen EXCEPT ![r] = Version]
        /\ rdOut' = [rdOut EXCEPT ![r] = Append(@, PollRecord(r, Some(Borrow(sentLog, rdSeen[r]))))]
        /\ UNCHANGED rdFirst
     \/ /\ ~rdFirst[r]
        /\ rdSeen[r] = Version
        /\ rdOut' = [rdOut EXCEPT ![r] =
                       Append(@, PollRecord(r, ChangedWhenSeen(wOpen)))]
        /\ UNCHANGED <<rdSeen, rdFirst>>
  /\ rdPolledSince' = [rdPolledSince EXCEPT ![r] = TRUE]
  /\ rdCoalesced' = [rdCoalesced EXCEPT ![r] = FALSE]
  /\ UNCHANGED <<sentLog, wOpen, rdLive, rdSkipped, rdBorn, rdLatest, coreVars, smVars,
                 libVars>>

\* Manifest::latest (manifest.rs:31-33): self.rx.borrow().clone().  The call
\* is not async; rx has marked nothing as seen.
ManifestLatest(r) ==
  /\ rdLive[r]
  /\ rdLatest' = <<r, Borrow(sentLog, 0)>>
  /\ UNCHANGED <<sentLog, wOpen, rdLive, rdSeen, rdFirst, rdOut, rdSkipped,
                 rdPolledSince, rdCoalesced, rdBorn, coreVars, smVars,
                 libVars>>

NextManifest ==
  \/ WriterSend
  \/ WriterDrop
  \/ \E r \in Readers : ManifestClone(r)
  \/ \E r \in Readers : ManifestPoll(r)
  \/ \E r \in Readers : ManifestLatest(r)

SpecManifest == Init /\ [][NextManifest]_vars

(***************************************************************************)
(* Properties of the queue and the mailbox tasks (Spec).                   *)
(***************************************************************************)
\* Event i of the log was put into a mailbox.
Forwarded(i) == enqLog[i].to # NoInst

\* No Deleted for the pod of event i was enqueued from i up to (not including) j.
NoDeleteBetween(i, j) ==
  \A x \in i..(j - 1) :
     ~(enqLog[x].type = "Deleted" /\ enqLog[x].key = enqLog[i].key)

StaleDeleted ==
  \A k \in Keys(rsPrior) \ Range(rsList) :
     \E i \in DOMAIN enqLog :
        enqLog[i].type = "Deleted" /\ enqLog[i].key = k /\ enqLog[i].to = rsPrior[k]

ExecutorActive(m) == pc[m] \notin {"none", "done", "panicked"}

\* C2 (At-most-one state task per pod): at any time at most one executor
\* task that was spawned and has not returned exists for a PodKey.
C2_AtMostOneExecutor ==
  \A k \in Pods :
     Cardinality({m \in Inst : mbKey[m] = k /\ ExecutorActive(m)}) <= 1

\* The state machine of instance m reached the end of a path: Complete(Ok),
\* Complete(Err) or the end of the run from TerminatedState.
MachineEnded(m) == runOutcome[m] \in {"ok", "err"} \/ termOutcome[m] # "none"

\* C3 as claimed (AsyncDrop runs exactly once on every terminating path):
\* once the state machine of a spawned executor has ended, async_drop has run
\* exactly once, or a task of the pod can still take a step towards it.
C3_DropOnEveryPath ==
  \A m \in Inst :
     MachineEnded(m) =>
        \/ dropCount[m] = 1
        \/ (dropCount[m] = 0 /\ ENABLED (DeregObserved(m) \/ AsyncDrop(m)
                                          \/ MailboxRecv(m)))

\* C3 as amended: async_drop runs at most once per executor task; it has run
\* exactly once when the task reaches the API delete and returns, and it runs
\* only after the pod-deleted sentinel was true.  While the pod is not marked
\* deleted, and after a panic of the Failed patch, it has not run.
C3_DropOnceAfterDeletion ==
  \A m \in Inst :
     /\ dropCount[m] <= 1
     /\ dropCount[m] = 1 <=> pc[m] \in {"apiDelete", "done"}
     /\ dropCount[m] = 1 => podDeleted[m]

\* An executor whose run ended with Complete(Err) and that returned after
\* one async_drop.
C3_Witness ==
  \E m \in Inst : runOutcome[m] = "err" /\ pc[m] = "done" /\ dropCount[m] = 1

AfterSelect(m) == pc[m] \in {"waitDereg", "drop", "apiDelete", "done"}

\* C5 as claimed (Deletion race): if the sentinel became true while the run
\* from the initial state was in progress, that run does not complete (it is
\* abandoned) and exactly one run from TerminatedState is made; an error of
\* that run leaves no Failed patch and is not retried.
C5_SentinelAbandonsRun ==
  \A m \in Inst :
     /\ firedInRun[m] => runOutcome[m] \in {"pending", "abandoned"}
     /\ firedInRun[m] /\ AfterSelect(m) => termRuns[m] = 1
     /\ termOutcome[m] = "err" => (failedPatch[m] = NoError /\ AfterSelect(m))

\* C5 as amended: the run from TerminatedState is made, exactly once, when
\* the check loop observes the sentinel while the initial run is still in
\* progress (the second arm of select! wins); the initial run is then
\* abandoned.  An initial run that completes first, also after the sentinel
\* became true, is followed by no Terminated run.  An error of the
\* Terminated run leaves no Failed patch and is not retried.
C5_CheckArmRunsTerminated ==
  \A m \in Inst :
     /\ termRuns[m] <= 1
     /\ runOutcome[m] = "abandoned" <=> termRuns[m] = 1
     /\ runOutcome[m] = "abandoned" => (podDeleted[m] /\ firedInRun[m])
     /\ runOutcome[m] = "abandoned" /\ AfterSelect(m) => termOutcome[m] # "none"
     /\ termOutcome[m] = "err" => (failedPatch[m] = NoError /\ AfterSelect(m))

\* An abandoned run whose Terminated run failed, and whose executor returned.
C5_Witness ==
  \E m \in Inst :
     /\ firedInRun[m] /\ runOutcome[m] = "abandoned"
     /\ termOutcome[m] = "err" /\ pc[m] = "done"

\* The Applied event that made run_pod spawn instance m: the first event put
\* into its mailbox.
SpawnedByApplied(m) ==
  \E i \in DOMAIN enqLog :
     /\ enqLog[i].to = m /\ enqLog[i].type = "Applied" /\ enqLog[i].key = mbKey[m]
     /\ \A x \in 1..(i - 1) : enqLog[x].to # m

E5Order == <<"terminated", "stop", "drop", "delete">>

IsPrefix(a, b) == Len(a) <= Len(b) /\ a = SubSeq(b, 1, Len(a))

\* The pod of instance m was deleted (Deleted was enqueued for its mailbox)
\* while its state machine was in Running.
DeletedInRunning(m) ==
  \E i \in DOMAIN enqLog : enqLog[i].type = "Deleted" /\ enqLog[i].to = m

\* C6 as claimed (E5 deletion during Running): a pod deleted while its state
\* machine was in Running goes, in this order, through the run of
\* TerminatedState with the stop of its container handles, the async
\* teardown and the API delete: the milestones of its executor are never
\* anything but a prefix of that order, and all of them once it returned.
C6_E5OrderAlways ==
  \A m \in Inst :
     DeletedInRunning(m) =>
        /\ IsPrefix(trace[m], E5Order)
        /\ pc[m] = "done" => trace[m] = E5Order

\* C6 as amended: the order holds when the check loop of the executor
\* observes the sentinel while the state machine is still in Running (the
\* initial run is abandoned).  When the initial run completes before the
\* check loop's next poll, TerminatedState is not run and no handle is
\* stopped: the teardown and the API delete follow alone.
C6_E5OrderWhenAbandoned ==
  \A m \in Inst :
     /\ (DeletedInRunning(m) /\ runOutcome[m] = "abandoned") =>
           /\ IsPrefix(trace[m], E5Order)
           /\ pc[m] = "done" => trace[m] = E5Order
           /\ AfterSelect(m) => (handleState[m] = "stopped" /\ Len(trace[m]) >= 2)
     /\ (DeletedInRunning(m) /\ runOutcome[m] \in {"ok", "err"}) =>
           /\ IsPrefix(trace[m], <<"drop", "delete">>)
           /\ pc[m] = "done" => trace[m] = <<"drop", "delete">>

\* A pod deleted in Running whose executor went through the whole order.
C6_Witness ==
  \E m \in Inst :
     /\ DeletedInRunning(m) /\ runOutcome[m] = "abandoned"
     /\ pc[m] = "done" /\ trace[m] = E5Order /\ handleState[m] = "stopped"

\* C7 (no status patch after the deletion): once the executor of a pod that
\* was deleted while running has called the API delete, no task issues a
\* status patch for the pod.
C7_NoPatchAfterDelete ==
  \A m \in Inst : DeletedInRunning(m) => ~latePatch[m]

(***************************************************************************)
(* Properties of the pod state machine (SpecSM).                           *)
(***************************************************************************)
\* C8 as claimed (CrashLoopBackoff threshold): the third entry in a row into
\* the Error state reaches CrashLoopBackoff, and the first and second
\* entries go back to Registered.
C8_ThirdEntryBacksOff ==
  \A i \in DOMAIN errOut :
     /\ errOut[i].row = 3 => errOut[i].to = "CrashLoopBackoff"
     /\ errOut[i].row \in {1, 2} => errOut[i].to = "Registered"

\* C8 as amended: Error::next increments the counter and compares it with
\* "> 3", so the first, second and third entries since the start (or since
\* the last CrashLoopBackoff) go back to Registered and the fourth reaches
\* CrashLoopBackoff, which resets the counter.  The counter is not reset by
\* progress of the pod, so entries count whether or not they are in a row.
C8_FourthEntryBacksOff ==
  /\ \A i \in DOMAIN errOut :
        /\ errOut[i].total \in 1..(ErrorThreshold + 1)
        /\ errOut[i].total <= ErrorThreshold => errOut[i].to = "Registered"
        /\ errOut[i].total = ErrorThreshold + 1 => errOut[i].to = "CrashLoopBackoff"
        /\ errOut[i].row <= errOut[i].total
  /\ psErrors \in 0..ErrorThreshold
  /\ psState = "CrashLoopBackoff" => psErrors = 0

\* Four entries in a row: three returns to Registered, then CrashLoopBackoff.
C8_Witness ==
  /\ psState = "CrashLoopBackoff"
  /\ Len(errOut) >= 4
  /\ errOut[Len(errOut)].row = 4 /\ errOut[Len(errOut)].to = "CrashLoopBackoff"
  /\ errOut[Len(errOut) - 1].row = 3 /\ errOut[Len(errOut) - 1].to = "Registered"

(***************************************************************************)
(* Properties of the manifest channel (SpecManifest).                      *)
(***************************************************************************)
\* C10 (Manifest coalescing): when the writer sent v1 and then v2 with no
\* poll of a reader's stream in between, the next poll of that reader yields
\* v2 (the value the channel holds), and no poll of that reader ever yields
\* v1.
C10_Coalescing ==
  \A r \in Readers :
     /\ \A i \in DOMAIN rdOut[r] :
           /\ rdOut[r][i].coalesced => rdOut[r][i].item = rdOut[r][i].latest
           /\ rdOut[r][i].item \notin rdSkipped[r]
     /\ rdCoalesced[r] => Some(sentLog[Len(sentLog)]) \notin rdSkipped[r]

\* A reader polled after two sends with no poll in between: it got v2.
C10_Witness ==
  \E r \in Readers : \E i \in DOMAIN rdOut[r] :
     /\ rdOut[r][i].coalesced
     /\ rdOut[r][i].item = Some(2)
     /\ Some(1) \in rdSkipped[r]
     /\ i > 1

\* The last value the writer sent (the initial one if it sent nothing).
FinalValue == sentLog[Len(sentLog)]

\* Number of polls of reader r that yielded the value v.
Yields(r, v) == Cardinality({i \in DOMAIN rdOut[r] : rdOut[r][i].item = Some(v)})

\* A poll of reader r takes place in this step.
Polled(r) == Len(rdOut'[r]) = Len(rdOut[r]) + 1

\* C11 (Writer close): a stream that terminated (yielded None) did so after
\* the writer was dropped and after it yielded the last value sent; a poll
\* made after the writer was dropped is never pending and yields the last
\* value sent or None; and the last value is yielded at most twice, so a
\* reader that keeps polling reaches None.
C11_WriterClose ==
  /\ [](\A r \in Readers :
          /\ \A i \in DOMAIN rdOut[r] :
                rdOut[r][i].item = None =>
                   /\ ~wOpen
                   /\ i = Len(rdOut[r])
                   /\ \E j \in 1..(i - 1) : rdOut[r][j].item = Some(FinalValue)
          /\ ~wOpen => Yields(r, FinalValue) <= 2)
  /\ [][\A r \in Readers :
          (~wOpen /\ Polled(r)) =>
             rdOut'[r][Len(rdOut'[r])].item \in {Some(FinalValue), None}]_vars

\* The original reader and its clone both delivered the last value sent,
\* the clone only after the writer was dropped, and both terminated.
C11_Witness ==
  /\ ~wOpen /\ FinalValue >= 1
  /\ \A r \in Readers :
        /\ rdLive[r] /\ rdOut[r] # <<>>
        /\ rdOut[r][Len(rdOut[r])].item = None
        /\ Yields(r, FinalValue) >= 1
  /\ Len(rdOut["manifest_2"]) = 2

\* latest() is called in this step and returns v.
LatestReturns(v) == rdLatest' # rdLatest /\ rdLatest'[2] = v

\* A call of latest() returns the most recently sent value.
LatestIsCurrent == rdLatest' # rdLatest => LatestReturns(FinalValue)

\* C12 as claimed (subscription start): the first poll of a reader yields
\* the value that was current when the reader was created, and latest()
\* returns the most recently sent value.
C12_FirstPollAtSubscribe ==
  /\ [](\A r \in Readers : rdOut[r] # <<>> => rdOut[r][1].item = Some(rdBorn[r]))
  /\ [][LatestIsCurrent]_vars

\* C12 as amended: the first poll of a reader is never pending and yields
\* the value the channel holds at the time of that poll, which is newer than
\* the value at creation when the writer sent in between; latest() returns
\* the most recently sent value (the initial one if nothing was sent).
C12_FirstPollAtPollTime ==
  /\ [](\A r \in Readers :
          rdOut[r] # <<>> =>
             /\ rdOut[r][1].item = rdOut[r][1].latest
             /\ rdOut[r][1].item[2] >= rdBorn[r])
  /\ [][LatestIsCurrent]_vars

\* A clone made after a send and first polled after a later send, on which
\* latest() then returned that later value.
C12_Witness ==
  /\ rdBorn["manifest_2"] = 1
  /\ rdOut["manifest_2"] # <<>>
  /\ rdOut["manifest_2"][1].item = Some(2)
  /\ rdLatest = <<"manifest_2", 2>>

(***************************************************************************)
(* Properties of the container status channel (SpecE5).                    *)
(***************************************************************************)
\* Place of a status in the lifecycle of a container run.
StatusRank(st) ==
  CASE st = "none" -> 0
    [] st = "Waiting" -> 1
    [] st = "Running" -> 2
    [] st = "Terminated" -> 3

\* C13 (Status monotonicity): the status held by the status channel of a
\* container run never regresses (no Waiting after Running or Terminated, no
\* Running after Terminated) and nothing is published after Terminated.
C13_StatusMonotone ==
  [][\A m \in Inst :
       /\ StatusRank(ctrStatus'[m]) >= StatusRank(ctrStatus[m])
       /\ ctrStatus[m] = "Terminated" =>
            (ctrVer'[m] = ctrVer[m] /\ ctrStatus'[m] = "Terminated")
       /\ ctrVer'[m] # ctrVer[m] => ctrStatus'[m] # ctrStatus[m]]_vars

\* A container run that published Waiting, Running and Terminated, and
\* whose task ended.
C13_Witness ==
  \E m \in Inst : ctrStatus[m] = "Terminated" /\ ctrVer[m] = 3 /\ ~ctrOpen[m]

(***************************************************************************)
(* Properties of Queue::enqueue (Spec).                                    *)
(***************************************************************************)
\* enqueue is called in this step; the event it was called with.
EnqueueStep == Len(enqLog') = Len(enqLog) + 1
ThisEvent == enqLog'[Len(enqLog')]

\* Nothing was created or spawned in this step.
NothingSpawned == nInst' = nInst /\ pc' = pc /\ mbKey' = mbKey /\ mbOpen' = mbOpen

\* C14 (Applied handling): enqueue(Applied(p)) with no mailbox for the key
\* creates exactly one mailbox, spawns exactly one executor task and puts
\* the event into the new mailbox; with a mailbox it only forwards the
\* event; when initialize_pod_state fails it returns an error, inserts no
\* mailbox and spawns nothing.
C14_AppliedHandling ==
  [][(EnqueueStep /\ ThisEvent.type = "Applied") =>
       LET e == ThisEvent
           k == e.key
           old == handlers[k]
           new == nInst + 1
       IN  IF old # NoInst
           THEN /\ e.res = "Ok"
                /\ NothingSpawned /\ handlers' = handlers
                /\ mbOpen[old] =>
                     /\ e.to = old
                     /\ mbQueue' = [mbQueue EXCEPT ![old] = Append(@, Len(enqLog'))]
           ELSE IF e.res = "Ok"
           THEN /\ nInst' = new
                /\ handlers' = [handlers EXCEPT ![k] = new]
                /\ pc[new] = "none" /\ pc' = [pc EXCEPT ![new] = "running"]
                /\ mbKey'[new] = k /\ mbOpen'[new] /\ ~podDeleted'[new]
                /\ e.to = new
                /\ mbQueue' = [mbQueue EXCEPT ![new] = <<Len(enqLog')>>]
           ELSE /\ e.to = NoInst
                /\ NothingSpawned /\ handlers' = handlers /\ mbQueue' = mbQueue]_vars

\* An Applied that created the mailbox of p1, a second one that was only
\* forwarded to it, and an Applied of p2 whose initialize_pod_state failed.
C14_Witness ==
  /\ nInst = 1 /\ handlers = [k \in Pods |-> IF k = "p1" THEN 1 ELSE NoInst]
  /\ Len(enqLog) = 3
  /\ enqLog[1].type = "Applied" /\ enqLog[1].key = "p1" /\ enqLog[1].to = 1
  /\ enqLog[2].type = "Applied" /\ enqLog[2].key = "p1" /\ enqLog[2].to = 1
  /\ enqLog[3].type = "Applied" /\ enqLog[3].key = "p2" /\ enqLog[3].res = "Err"
  /\ mbQueue[1] = <<1, 2>>

\* Event i of the log is a Deleted that was put into the mailbox of m.
DeletedSentTo(i, m) ==
  i \in DOMAIN enqLog /\ enqLog[i].type = "Deleted" /\ enqLog[i].to = m

\* C15 (Deleted handling): enqueue(Deleted(p)) for a pod with a mailbox
\* leaves the mailbox map without an entry for the key; nothing is put into
\* that mailbox after the Deleted event, which is the last event its task
\* receives; and the task eventually sets the pod-deleted sentinel and stops
\* receiving.
C15_DeletedHandling ==
  /\ [][(EnqueueStep /\ ThisEvent.type = "Deleted" /\ handlers[ThisEvent.key] # NoInst)
          => handlers'[ThisEvent.key] = NoInst]_vars
  /\ [](\A m \in Inst : \A i \in DOMAIN enqLog :
          DeletedSentTo(i, m) =>
             /\ \A k \in Pods : handlers[k] # m
             /\ \A j \in DOMAIN enqLog : enqLog[j].to = m => j <= i
             /\ mbQueue[m] # <<>> => mbQueue[m][Len(mbQueue[m])] = i
             /\ IndexOf(mbRecv[m], i) # 0 =>
                  /\ IndexOf(mbRecv[m], i) = Len(mbRecv[m])
                  /\ podDeleted[m] /\ ~mbOpen[m] /\ mbQueue[m] = <<>>)
  /\ \A m \in Inst :
        (\E i \in DOMAIN enqLog : DeletedSentTo(i, m)) ~> (podDeleted[m] /\ ~mbOpen[m])

\* A mailbox that received two Applied events and then the Deleted event,
\* whose task has ended.
C15_Witness ==
  \E m \in Inst :
     /\ Len(mbRecv[m]) = 3
     /\ DeletedSentTo(mbRecv[m][3], m)
     /\ podDeleted[m] /\ ~mbOpen[m]
     /\ handlers[mbKey[m]] = NoInst

\* C16 (Deleted for an unseen pod): enqueue(Deleted(p)) with no mailbox for
\* the key returns Ok, leaves the mailbox map unchanged, sends no event and
\* spawns no task.
C16_DeletedUnseen ==
  [][(EnqueueStep /\ ThisEvent.type = "Deleted" /\ handlers[ThisEvent.key] = NoInst) =>
       /\ ThisEvent.res = "Ok" /\ ThisEvent.to = NoInst
       /\ handlers' = handlers
       /\ mbQueue' = mbQueue
       /\ NothingSpawned /\ podDeleted' = podDeleted]_vars

\* A Deleted for p2, which has no mailbox, enqueued while p1 has one.
C16_Witness ==
  /\ Len(enqLog) = 2
  /\ enqLog[1].type = "Applied" /\ enqLog[1].key = "p1" /\ enqLog[1].to = 1
  /\ enqLog[2].type = "Deleted" /\ enqLog[2].key = "p2" /\ enqLog[2].res = "Ok"
  /\ handlers["p1"] = 1 /\ handlers["p2"] = NoInst /\ nInst = 1

\* enqueue sends to a mailbox whose receiver is closed in this step.
SendToClosed ==
  /\ EnqueueStep
  /\ ThisEvent.type \in {"Applied", "Deleted"}
  /\ handlers[ThisEvent.key] # NoInst
  /\ ~mbOpen[handlers[ThisEvent.key]]

\* C17 (Send failure is swallowed): whenever enqueue sends an Applied or a
\* Deleted event to a mailbox whose receiver is closed, the event is dropped
\* and enqueue returns Ok.
C17_SendFailureSwallowed ==
  [][SendToClosed =>
       (ThisEvent.res = "Ok" /\ ThisEvent.to = NoInst /\ mbQueue' = mbQueue)]_vars

\* The mailbox of m is full: 16 events sent and not yet received.
MailboxFull(m) == mbOpen[m] /\ Len(mbQueue[m]) = MailboxCapacity

Suspended == rsPc = "sending"

\* C18 (Mailbox bound and backpressure): a mailbox never holds more than 16
\* undelivered events; a call of enqueue that finds the mailbox full is
\* suspended and changes nothing; a suspended call ends only by putting its
\* event at the back of the mailbox and returning Ok; and with the mailbox
\* task scheduled fairly every suspended call returns.
C18_MailboxBackpressure ==
  /\ [](\A m \in Inst : Len(mbQueue[m]) <= MailboxCapacity)
  /\ [][(calls' = calls + 1 /\ handlers["p1"] # NoInst /\ MailboxFull(handlers["p1"])) =>
          (Suspended' /\ mbQueue' = mbQueue /\ enqLog' = enqLog /\ handlers' = handlers)]_vars
  /\ [][(Suspended /\ ~Suspended') =>
          /\ EnqueueStep /\ ThisEvent.res = "Ok" /\ ThisEvent.to = handlers["p1"]
          /\ mbQueue'[handlers["p1"]] = Append(mbQueue[handlers["p1"]], Len(enqLog'))
          /\ Len(mbRecv[handlers["p1"]]) > 0]_vars
  /\ (Suspended ~> ~Suspended)

\* A call is suspended on the full mailbox of p1.
C18_Witness ==
  /\ Suspended
  /\ handlers["p1"] = 1 /\ MailboxFull(1)
  /\ calls = MailboxCapacity + 1

\* C19 (Backoff states): CrashLoopBackoff.next waits once on the crash-loop
\* policy and goes to Registered, ImagePullBackoff.next waits once on the
\* image-pull policy and goes to ImagePull, neither touches the other policy,
\* and the status of either state is phase Pending with the state's name as
\* reason.
C19_BackoffStates ==
  /\ [][(psState = "CrashLoopBackoff" /\ psState' # psState) =>
          /\ psState' = "Registered"
          /\ crashBackoff' = crashBackoff + 1
          /\ pullBackoff' = pullBackoff]_vars
  /\ [][(psState = "ImagePullBackoff" /\ psState' # psState) =>
          /\ psState' = "ImagePull"
          /\ pullBackoff' = pullBackoff + 1
          /\ crashBackoff' = crashBackoff]_vars
  /\ [](psState \in {"CrashLoopBackoff", "ImagePullBackoff"} =>
          StateStatus(psState) = [phase |-> "Pending", reason |-> psState])

\* The machine has left both backoff states, each after one wait.
C19_Witness ==
  /\ crashBackoff = 1
  /\ pullFails >= 1
  /\ psState = "ImagePull"
  /\ pullBackoff = 1

\* C20 (ImagePull outcome): ImagePull.next goes to VolumeMount with the
\* image-pull policy reset when the fetch succeeds, and to ImagePullBackoff
\* with the policy untouched when it fails; so the policy counts the failed
\* fetches of the present unbroken run, and is 0 after a success.
C20_ImagePullOutcome ==
  /\ [][(psState = "ImagePull" /\ psState' # psState) =>
          \/ /\ psState' = "VolumeMount"
             /\ pullFails' = pullFails
             /\ pullBackoff' = 0
          \/ /\ psState' = "ImagePullBackoff"
             /\ pullFails' = pullFails + 1
             /\ pullBackoff' = pullBackoff]_vars
  /\ [](psState = "ImagePull" => pullBackoff = pullRun)
  /\ [](psState = "ImagePullBackoff" => pullBackoff = pullRun - 1)
  /\ [](psState \notin {"ImagePull", "ImagePullBackoff"} => pullBackoff = 0)

\* Two failed fetches in a row, two waits, then a successful fetch.
C20_Witness ==
  /\ psState = "VolumeMount"
  /\ pullFails = 2
  /\ pullBackoff = 0

\* The waits w of a policy since its last reset() are those of an
\* exponential backoff: the first lasts base, the i-th min(base * 2^(i-1), max),
\* and none is shorter than the one before.
ExponentialWaits(w) ==
  /\ w # <<>> => w[1] = BackoffBase
  /\ \A i \in DOMAIN w : w[i] = Min(BackoffBase * 2^(i - 1), BackoffMax)
  /\ \A i \in DOMAIN w : i > 1 => w[i - 1] <= w[i]

\* C21 (Backoff monotonicity): between two consecutive reset() calls the
\* successive wait() durations of the image-pull policy and of the crash-loop
\* policy are non-decreasing, equal to min(base * 2^n, max) for n = 0, 1, 2,
\* ..., and the first wait() after a reset() lasts base.
C21_BackoffMonotone ==
  /\ ExponentialWaits(pullWaits)
  /\ ExponentialWaits(crashWaits)

\* Three image-pull waits in a row, the third at the largest delay, and two
\* crash-loop waits.
C21_Witness ==
  /\ pullWaits = <<BackoffBase, 2 * BackoffBase, BackoffMax>>
  /\ Len(crashWaits) = 2

\* The states each state declares with #[transition_to(...)]; Completed and
\* Terminated declare none.
Declared(st) ==
  CASE st = "Registered"       -> {"ImagePull", "Error"}
    [] st = "ImagePull"        -> {"VolumeMount", "ImagePullBackoff"}
    [] st = "ImagePullBackoff" -> {"ImagePull"}
    [] st = "Error"            -> {"Registered", "CrashLoopBackoff"}
    [] st = "CrashLoopBackoff" -> {"Registered"}
    [] st = "Waiting"          -> {"Running"}
    [] st = "Completed"        -> {}
    [] st = "Terminated"       -> {}

\* What a run is left with after Transition::Complete(Ok) / Complete(Err).
Completes == {"exited", "failed"}

\* C22 (Permitted transitions): whenever next() of Registered, ImagePull,
\* ImagePullBackoff, Error, CrashLoopBackoff, Completed, Terminated or the
\* container state Waiting returns, it returns Complete or a transition to
\* a state the state declares; Completed and Terminated return only Complete.
C22_PermittedTransitions ==
  /\ [][(psState \in {"Registered", "ImagePull", "ImagePullBackoff", "Error",
                      "CrashLoopBackoff", "Completed"} /\ psState' # psState) =>
          psState' \in Declared(psState) \cup Completes]_vars
  /\ [][(termSm = "Terminated" /\ termSm' # termSm) =>
          termSm' \in Declared("Terminated") \cup Completes]_vars
  /\ [][(ctrSm = "Waiting" /\ ctrSm' \notin {ctrSm, "panicked"}) =>
          ctrSm' \in Declared("Waiting") \cup Completes]_vars

\* A run that went through Error to CrashLoopBackoff and back and pulled its
\* image after a backoff, then a deletion and a run from Terminated that ended.
C22_Witness ==
  /\ psState = "VolumeMount"
  /\ Len(crashWaits) >= 1
  /\ pullFails >= 1
  /\ Len(errOut) >= 4
  /\ termSm \in Completes

(***************************************************************************)
(* Properties of the Store (SpecStore).                                    *)
(***************************************************************************)
\* The step is the body of a call of the given kinds.
StoreRan(kinds) ==
  /\ stLastRun' # stLastRun
  /\ stLastRun'.op.kind \in kinds

LastRan(kinds) == stLastRun # <<>> /\ stLastRun.op.kind \in kinds

\* C23 (ObjectStore linearizability): a get of key K returns the object of
\* the last write to K in lock-acquisition order when that object has the
\* requested type, and no object when that write was a delete or a reset or
\* there was none; so the objects successive gets of K return were all
\* written to K, and a get never returns an older object than an earlier get.
C23_StoreLinearizable ==
  /\ [](LastRan({"get"}) =>
          LET r == stLastRun
          IN  /\ r.latest = Absent => r.res = OkNone
              /\ (r.latest # Absent /\ r.latest[2] = r.op.t) => r.res = OkSome(r.latest[3])
              /\ (r.res[1] = "Ok" /\ r.res[2] = "Some") =>
                    r.latest = Obj(r.op.t, r.res[3]))
  /\ [](\A t \in Types, k \in ObjKeys : stSeen[t][k] \in stWritten[t][k] \cup {0})
  /\ [][\A t \in Types, k \in ObjKeys : stSeen'[t][k] >= stSeen[t][k]]_vars

\* Two gets of one key returned two different objects, in the order written.
C23_Witness ==
  /\ LastRan({"get"})
  /\ stLastRun.seen = 1
  /\ stLastRun.res = OkSome(2)
  /\ stLastRun.op.t = "Pod" /\ stLastRun.op.k = "a"
  /\ stWritten["Pod"]["a"] = {1, 2}

\* The get found an object of another type than the one requested.
Mismatch(r) == r.op.kind = "get" /\ r.found # Absent /\ r.found[2] # r.op.t

\* C24 (ObjectStore type mismatch is recoverable): a get that finds an
\* object of another type returns an error and does not panic; no get
\* changes the store; and an insert after it puts its object in the store.
C24_MismatchRecoverable ==
  /\ []((stLastRun # <<>> /\ Mismatch(stLastRun)) => stLastRun.res = ErrMismatch)
  /\ [](\A c \in StClients : stPc[c] # "panicked")
  /\ [][StoreRan({"get"}) => objects' = objects]_vars
  /\ [][StoreRan({"insert", "insert_any"}) =>
          LET op == stLastRun'.op
          IN  objects'.inner[op.t][op.k] = Obj(op.ty, stIds')]_vars

\* insert_any put a Node under the key of Pod, a get::<Pod> found it, and
\* an insert::<Pod> of the same key came after.
C24_Witness ==
  /\ LastRan({"insert"})
  /\ stLastRun.op.t = "Pod"
  /\ stLastRun.before.inner["Pod"][stLastRun.op.k] = Obj("Node", 1)
  /\ stIds = 2 /\ stCalls = 3
  /\ objects.inner["Pod"][stLastRun.op.k] = Obj("Pod", 2)

\* C25 as claimed (ObjectStore type mismatch looks like a cache miss): a get
\* that finds an object of another type returns None, as for an absent key.
C25_MismatchIsNone ==
  (stLastRun # <<>> /\ Mismatch(stLastRun)) => stLastRun.res = OkNone

\* C25 as amended: get returns Ok(None) exactly when the key holds no object,
\* and an error, which is not Ok(None), exactly when the object it holds is
\* not of the requested type.
C25_MismatchIsError ==
  LastRan({"get"}) =>
    /\ stLastRun.res = OkNone <=> stLastRun.found = Absent
    /\ stLastRun.res = ErrMismatch <=> Mismatch(stLastRun)
    /\ ErrMismatch # OkNone

\* A get::<Node> found the Pod that insert_any put under the key of Node.
C25_Witness ==
  /\ LastRan({"get"})
  /\ stLastRun.op.t = "Node"
  /\ stLastRun.found = Obj("Pod", 1)
  /\ stLastRun.res = ErrMismatch

\* C26 (ObjectStore reset frame): reset(T) removes every object under T and
\* leaves the objects under every other type key as they were; delete_any(T,
\* K) removes the object of (T, K) and leaves every other object as it was,
\* and changes no object when (T, K) holds none.
C26_ResetFrame ==
  /\ [][StoreRan({"reset"}) =>
          LET t == stLastRun'.op.t
          IN  /\ \A k \in ObjKeys : objects'.inner[t][k] = Absent
              /\ \A k \in ObjKeys : StoreGet(objects', t, k) = OkNone
              /\ \A u \in Types \ {t} : objects'.inner[u] = objects.inner[u]]_vars
  /\ [][StoreRan({"delete_any"}) =>
          LET t == stLastRun'.op.t
              k == stLastRun'.op.k
          IN  /\ objects'.inner[t][k] = Absent
              /\ \A u \in Types, j \in ObjKeys :
                    <<u, j>> # <<t, k>> => objects'.inner[u][j] = objects.inner[u][j]
              /\ objects.inner[t][k] = Absent => objects'.inner = objects.inner]_vars

\* A reset of Pod ran on a store that held two Pods and a Node.
C26_Witness ==
  /\ LastRan({"reset"})
  /\ stLastRun.op.t = "Pod"
  /\ \A k \in ObjKeys : stLastRun.before.inner["Pod"][k] # Absent
  /\ \E k \in ObjKeys : objects.inner["Node"][k] # Absent

(***************************************************************************)
(* Properties of the PodHandle (SpecHandle).                               *)
(***************************************************************************)
Returned(op) == hCall.op = op /\ hCall.ret # "none"

\* C27 (PodHandle.stop reaches every container): when a call of
\* PodHandle.stop returns, stop was invoked exactly once on every container
\* handle of the pod, whether or not some of these stops returned an error,
\* and the call returned Ok; during the call no handle is stopped twice.
C27_StopReachesAll ==
  /\ Returned("stop") => (hCall.ret = "Ok" /\ \A c \in Ctrs : hStops[c] = 1)
  /\ hCall.op = "stop" => \A c \in Ctrs : hStops[c] <= 1

\* A call of stop returned after the stop of the first handle failed.
C27_Witness ==
  /\ Returned("stop")
  /\ hStopErrs # {} /\ hStopErrs # Ctrs
  /\ \A c \in Ctrs : hStops[c] = 1

\* C28 (PodHandle.wait completeness): when a call of PodHandle.wait returns,
\* the wait of every container handle was awaited and the aggregator task
\* has finished, also when the wait of some container returned an error.
C28_WaitCompleteness ==
  Returned("wait") => (hAggDone /\ \A c \in Ctrs : hWaits[c] # NotWaited)

\* C29 (ContainerHandle.wait blocks until exit): with the Stop
\* implementations of the repository, the wait of a container handle returns
\* only after the workload of the container has exited.
C29_WaitBlocksUntilExit ==
  hStopper \in {"HandleStopper", "ActorStopper"} =>
     \A c \in Ctrs : hWaits[c] # NotWaited => hWaits[c].exited

(***************************************************************************)
(* Properties of the status subscriptions (SpecStatus).                    *)
(***************************************************************************)
\* C30 as claimed (Identical status sequences): any two subscriptions of one
\* container observe the same sequence of statuses: at any time what one has
\* observed is the beginning of what the other has.
C30_IdenticalSequences ==
  \A s1, s2 \in Subs :
     IsPrefix(subOut[s1], subOut[s2]) \/ IsPrefix(subOut[s2], subOut[s1])

\* C30 as amended: every subscription observes some of the statuses the
\* sender broadcast, each at most once and in the order of the broadcasts,
\* and a subscription polled to the end of its stream has observed the last
\* status as its last value; two subscriptions may differ in the statuses
\* they miss.
C30_SubsequencePerSubscription ==
  \A s \in Subs :
     /\ \A i, j \in DOMAIN subOut[s] :
           i < j => StatusRank(subOut[s][i]) < StatusRank(subOut[s][j])
     /\ subEnd[s] =>
           /\ subOut[s] # <<>>
           /\ subOut[s][Len(subOut[s])] = ctrStatus[SubInst]

\* Both subscriptions were polled to the end; one saw every status, the
\* other only the last.
C30_Witness ==
  /\ subEnd["s1"] /\ subEnd["s2"]
  /\ subOut["s1"] = <<"Waiting", "Running", "Terminated">>
  /\ subOut["s2"] = <<"Terminated">>

(***************************************************************************)
(* Properties of the PodHandle and its aggregator (SpecDrop).              *)
(***************************************************************************)
\* C31 (Dropping a PodHandle cancels its status aggregator): once the
\* PodHandle has been dropped the aggregator takes no further status from
\* the container's channel and issues no further patch, also when the
\* channel is still open and publishes afterwards.
C31_DropCancelsAggregator ==
  [][\A m \in Inst : handleState[m] = "dropped" => aggVer'[m] = aggVer[m]]_vars

(***************************************************************************)
(* Properties of the status patches of a pod (SpecPatch).                  *)
(***************************************************************************)
\* The tasks that have a status patch of the pod of instance m in flight.
PatchesInFlight(m) ==
  {t \in {"aggregator", "executor"} :
     \/ t = "aggregator" /\ aggPc[m] = "patching"
     \/ t = "executor" /\ pc[m] = "failPatch"}

\* C32 (Status patches are serialized per pod): at no time are two status
\* patch calls for one pod in flight.
C32_PatchesSerialized ==
  \A m \in Inst : Cardinality(PatchesInFlight(m)) <= 1

(***************************************************************************)
(* Properties of the phases the state machine publishes (SpecSM).          *)
(***************************************************************************)
\* C33 (Phase order of a successful pod): in a run that no deletion cuts
\* short, the first phase published is Pending, and the phase Succeeded is
\* published only after the phase Running.
C33_PhaseOrder ==
  termSm = "none" =>
     /\ phaseSeen # {} => "Pending" \in phaseSeen
     /\ "Succeeded" \in phaseSeen => "Running" \in phaseSeen

\* The pod ran to completion: Pending, Running and Succeeded were published.
C33_Witness ==
  /\ termSm = "none" /\ psState = "exited"
  /\ phaseSeen = {"Pending", "Running", "Succeeded"}

C35_SentinelDiscipline ==
  [][\A m \in Inst :
       /\ (nInst < m /\ nInst' >= m) => ~podDeleted'[m]
       /\ podDeleted[m] => podDeleted'[m]
       /\ (~podDeleted[m] /\ podDeleted'[m]) =>
             /\ Len(mbRecv'[m]) = Len(mbRecv[m]) + 1
             /\ LET ev == enqLog[mbRecv'[m][Len(mbRecv'[m])]]
                IN  \/ ev.type = "Deleted"
                    \/ ev.type = "Applied" /\ ev.dts]_vars

\* The mailbox task took an Applied event without a deletion timestamp, which
\* left the sentinel false, and then one with a deletion timestamp, which set
\* it; the task still runs.
C35_Witness ==
  \E m \in Inst :
     /\ podDeleted[m] /\ mbOpen[m]
     /\ Len(mbRecv[m]) >= 2
     /\ enqLog[mbRecv[m][1]].type = "Applied" /\ ~enqLog[mbRecv[m][1]].dts
     /\ enqLog[mbRecv[m][Len(mbRecv[m])]].type = "Applied"
     /\ enqLog[mbRecv[m][Len(mbRecv[m])]].dts

(***************************************************************************)
(* Properties of the end of an executor task (SpecExec).                   *)
(***************************************************************************)
\* C36 (Deregistration order): the pod is deleted from the API only after
\* the executor task observed the sentinel true and after async_drop ran;
\* while a pod whose state machine has finished is not marked deleted, it is
\* not removed from the API and its task has not returned.
C36_DeregistrationOrder ==
  \A m \in Inst :
     /\ apiDeleted[m] =>
           /\ podDeleted[m]
           /\ dropCount[m] >= 1
           /\ \E i, j \in DOMAIN trace[m] :
                 i < j /\ trace[m][i] = "drop" /\ trace[m][j] = "delete"
     /\ \A j \in DOMAIN trace[m] :
           trace[m][j] = "delete" =>
              \E i \in 1..(j - 1) : trace[m][i] = "drop"
     /\ pc[m] \in {"drop", "apiDelete", "done"} => podDeleted[m]
     /\ (MachineEnded(m) /\ ~podDeleted[m]) =>
           (~apiDeleted[m] /\ pc[m] \in {"waitDereg", "panicked"})

\* One executor returned after the API delete; the state machine of another
\* finished and its task waits for a deletion that was not signalled.
C36_Witness ==
  /\ \E m \in Inst : pc[m] = "done" /\ apiDeleted[m] /\ runOutcome[m] = "ok"
  /\ \E m \in Inst : MachineEnded(m) /\ ~podDeleted[m] /\ pc[m] = "waitDereg"

\* C37 (Terminated state runs once): an executor task runs the state
\* machine from TerminatedState at most once, and only when the sentinel
\* became true before the run from the initial state completed.  When the
\* initial run completed first, a later deletion leads to async_drop and the
\* API delete with no run from TerminatedState and no stop of the handle.
C37_TerminatedOnce ==
  \A m \in Inst :
     /\ termRuns[m] <= 1
     /\ Cardinality({i \in DOMAIN trace[m] : trace[m][i] = "terminated"}) <= 1
     /\ termRuns[m] = 1 => (firedInRun[m] /\ runOutcome[m] \notin {"ok", "err"})
     /\ runOutcome[m] \in {"ok", "err"} =>
           /\ termRuns[m] = 0 /\ termOutcome[m] = "none"
           /\ \A i \in DOMAIN trace[m] : trace[m][i] \notin {"terminated", "stop"}
           /\ pc[m] = "done" => trace[m] = <<"drop", "delete">>

\* The initial run completed before the deletion was signalled, and the
\* executor returned after async_drop and the API delete.
C37_Witness ==
  \E m \in Inst :
     /\ runOutcome[m] = "ok" /\ ~firedInRun[m] /\ podDeleted[m]
     /\ pc[m] = "done" /\ trace[m] = <<"drop", "delete">>

(***************************************************************************)
(* Properties of the WASI runtime task (SpecStatus).                       *)
(***************************************************************************)
\* C38 (Runtime always reports a terminal status): every WASI runtime task
\* that was started and has ended, on whatever path, left Terminated as the
\* last status of its channel.
C38_FinalStatusTerminated ==
  \A m \in Inst :
     (ctrStatus[m] # "none" /\ ~ctrOpen[m]) => ctrStatus[m] = "Terminated"

(***************************************************************************)
(* Properties of resync (Spec).                                            *)
(***************************************************************************)
\* C39 (Resync is deletes-first and all-or-abort): an enqueue of Applied
\* inside resync happens only when every mailbox key absent from the list was
\* sent Deleted; an enqueue inside resync that returns an error makes resync
\* return the error at once, and after that nothing more is enqueued by that
\* resync, so the remaining pods of the list receive no Applied event.
C39_ResyncDeletesFirstOrAbort ==
  [][/\ (rsPc = "run" /\ Len(enqLog') = Len(enqLog) + 1) =>
           LET e == enqLog'[Len(enqLog')]
           IN  /\ e.type = "Applied" => StaleDeleted
               /\ e.res = "Err" => rsPc' = "err"
               /\ e.res = "Ok" => rsPc' = "run"
     /\ (rsPc = "err" /\ rsPc' = "err") => (enqLog' = enqLog /\ handlers' = handlers)
     /\ (rsPc # "run" /\ rsPc' = "err") => rsPc = "err"]_vars

\* A resync that returned the error of the Applied of one pod of its list
\* while another pod of the list was still to be enqueued.
C39_Witness ==
  /\ rsPc = "err"
  /\ rsApps # <<>>
  /\ enqLog[Len(enqLog)].type = "Applied" /\ enqLog[Len(enqLog)].res = "Err"
  /\ \A i \in DOMAIN enqLog : enqLog[i].key # rsApps[1]

(***************************************************************************)
(* Properties of the waSCC provider (SpecWascc).                           *)
(***************************************************************************)
\* C40 (waSCC add registers a pod atomically): once add has returned and
\* until delete is called, the handles map has an entry for the pod exactly
\* when every container of the pod was started; while add runs there is no
\* entry.  When the start of a container failed, add returned an error, the
\* container was patched Terminated{failed: true}, no entry is ever
\* registered, and a delete of the pod finds no handle to stop.
C40_AddAtomic ==
  \A p \in WPods :
     /\ (wResult[p] # "none" /\ wDelete[p] = "none") =>
           (wHandles[p] # NoHandle <=> wStarted[p] = Range(WCtrs))
     /\ wResult[p] = "Ok" <=> (wResult[p] # "none" /\ wStarted[p] = Range(WCtrs))
     /\ wHandles[p] # NoHandle => wHandles[p] = <<Range(WCtrs)>>
     /\ wResult[p] = "none" => wHandles[p] = NoHandle
     /\ wFailed[p] # "none" =>
           /\ wResult[p] = "Err"
           /\ wFailed[p] \in wPatched[p]
           /\ wHandles[p] = NoHandle
           /\ wDelete[p] \in {"none", "notFound"}

\* The first container of a pod started, the start of the second failed,
\* and the delete that followed found no handle.
C40_Witness ==
  \E p \in WPods :
     /\ wStarted[p] = {"c1"} /\ wFailed[p] = "c2"
     /\ wResult[p] = "Err" /\ wPatched[p] = {"c2"}
     /\ wDelete[p] = "notFound"

=============================================================================
